---- MODULE Spec2Model ----
(***************************************************************************)
(* Verification model of esp-agent: the LVGL font reconciler               *)
(* (src/agent/scripts/configure_lvgl_fonts.py), the code-cleaning step of  *)
(* generate_code (src/agent/graph.py, src/agent_arduino/graph.py) and the  *)
(* LangGraph pipelines built by both packages.                             *)
(*                                                                         *)
(* Text is a sequence of tokens.  In the font reconciler a token is one of *)
(* the string literals the code handles whole (the key prefix, "=y", ...)  *)
(* or a single digit; in the code cleaner a token is a single character.   *)
(***************************************************************************)
EXTENDS Integers, Sequences, FiniteSets, TLC

VARIABLES
    \* ---- configure_lvgl_fonts.py ----
    source,       \* text of the project's .c file scanned by extract_fonts_from_code
    sdkconfig,    \* the sdkconfig file: [exists, data]
    printed,      \* what the last run printed: [kind, fonts]
    sdkInitial,   \* history: the sdkconfig file before the first run
    sdkBefore,    \* history: the sdkconfig file before the latest update
    fontsLast,    \* history: fonts_used of the latest update
    fontsBefore,  \* history: fonts_used of the update before the latest
    runs,         \* history: number of update_sdkconfig calls so far
    \* ---- generate_code: the code-cleaning step ----
    variant,      \* which package's generate_code runs: "agent" or "agent_arduino"
    response,     \* response.content, the raw model response (characters)
    cleaned,      \* outcome of the step: [raised, code]
    cleanPc,      \* "raw" before the cleaning step ran, "done" after
    \* ---- the environment ----
    apiKey,       \* whether ANTHROPIC_API_KEY is set
    \* ---- the LangGraph pipelines ----
    pipeline,     \* which compiled graph runs: "agent", "Arduino" or "ESP-IDF"
    statePlatform, \* state.platform of the run
    wiringOn,     \* config.GENERATE_WIRING_DIAGRAM
    viaDriver,    \* whether a driver script starts the run (else the graph is
                  \* invoked directly)
    designFile,   \* the design file on disk: whether it exists, and its text
    designPath,   \* state.design_file, the path of that file
    cwdDesign,    \* the file design.txt of the working directory
    agentTask,    \* history: the task text generate_code_loop gave to agent.run
    tasks,        \* the nodes of the current step, each "pending", "running" or "done"
    writes,       \* state updates returned by the nodes that finished in this step
    state,        \* the graph State seen by the nodes of the current step
    runStatus,    \* "running", "finished" or "failed" (a node raised)
    raised,       \* the exception that ended the run ("" when none)
    executed,     \* history: how many times each node has started
    completed,    \* history: how many times each node has returned
    assemblies,   \* history: the State each execution of the assembly step read
    files,        \* the project directory: file name -> content ("" when absent)
    wiringSave,   \* history: how the last save of the wiring documents went, and
                  \* the format names it had put in saved_files
    \* ---- IoTAgent._run_agent_loop ----
    loopPc,       \* "call" (awaiting the model response), "returned" or "raised"
    iteration,    \* the loop counter
    messages,     \* self.messages
    modelCalls,   \* history: how many times client.messages.create was called
    dispatched,   \* history: the tool_use ids handed to _handle_tool_call, in order,
                  \* while the last response was processed
    lastResponse, \* history: the last model response
    loopResult,   \* the returned text
    \* ---- the drivers: batch_eval.py and create_and_build.py ----
    driver,       \* "batch" or "single"
    taskFile,     \* the task list file: the [labX_taskY] sections in file order
    selection,    \* args.tasks: the ids asked for ({} when not given)
    tasksDict,    \* the dict main iterates: <<id, content>> items in insertion order
    driverPc,     \* "start", "run", "done" or, when an exception left main, "halted"
    attempts,     \* history: the graph runs made, in order, with how each ended
    logged,       \* history: the ids whose failure was caught and logged
    \* --- get_skillset and parse_wiring_diagram_text
    skPkg,        \* the package whose get_skillset is called: "agent" or "agent_arduino"
    platformArg,  \* the platform argument: [given, name], given FALSE for None
    diagramText,  \* the wiring text handed to the parser
    lookup,       \* what get_skillset returned or raised
    parsedData,   \* what parse_wiring_diagram_text returned
    wiringPc,     \* "idle", "call" or "done"
    \* --- the tool read_skill_file
    skillName,    \* tool_input["skill_name"]
    fileName,     \* tool_input["filename"] as a path: [absolute, parts]
    fileResult,   \* what SkillRegistry.read_skill_file returned
    toolReply,    \* what _handle_tool_call returned
    skillPc,      \* "idle", "call" or "done"
    \* --- ArduinoAgent and ArduinoLVGLFontConfigSkill
    sketch,       \* the project's sketch file: [exists, data]
    lvFiles,      \* the three lv_conf.h candidates, in the order they are looked up
    iniFile,      \* platformio.ini: [exists, data]
    lvBefore,     \* history: lvFiles before each update_lv_conf_h call, in order
    lvFonts,      \* history: fonts_used of each update_lv_conf_h call, in order
    lvResult,     \* what the latest call of the skill returned
    lvCalls,      \* history: number of calls of the skill and the agent so far
    lvOp,         \* history: the latest step: "none", "update", "execute", "edit" or
                  \* "reconcile"
    agentState,   \* ArduinoAgent.state: [libraries, lvgl_fonts]
    agentBefore,  \* history: agentState before the latest reconcile_libraries
    reconciled    \* what the latest reconcile_libraries returned

sdkVars == <<source, sdkconfig, printed, sdkInitial, sdkBefore, fontsLast, fontsBefore, runs>>

cleanVars == <<variant, response, cleaned, cleanPc>>

graphVars == <<pipeline, statePlatform, wiringOn, viaDriver, designFile, designPath, cwdDesign, agentTask, tasks, writes, state, runStatus, raised,
               executed, completed, assemblies, files, wiringSave>>

loopVars == <<loopPc, iteration, messages, modelCalls, dispatched, lastResponse, loopResult>>

driverVars == <<driver, taskFile, selection, tasksDict, driverPc, attempts, logged>>

wiringVars == <<skPkg, platformArg, diagramText, lookup, parsedData, wiringPc>>

skillVars == <<skillName, fileName, fileResult, toolReply, skillPc>>

ardVars == <<sketch, lvFiles, iniFile, lvBefore, lvFonts, lvResult, lvCalls, lvOp, agentState,
             agentBefore, reconciled>>

vars == <<apiKey, sdkVars, cleanVars, graphVars, loopVars, driverVars, wiringVars, skillVars,
          ardVars>>

\* the variables each specification leaves alone
notSdk == <<apiKey, cleanVars, graphVars, loopVars, driverVars, wiringVars, skillVars,
    ardVars>>
notClean == <<apiKey, sdkVars, graphVars, loopVars, driverVars, wiringVars, skillVars,
    ardVars>>
notGraph == <<apiKey, sdkVars, cleanVars, loopVars, driverVars, wiringVars, skillVars,
    ardVars>>
notLoop == <<apiKey, sdkVars, cleanVars, graphVars, driverVars, wiringVars, skillVars,
    ardVars>>
notDriver == <<apiKey, sdkVars, cleanVars, graphVars, loopVars, wiringVars, skillVars,
    ardVars>>
notWiring == <<apiKey, sdkVars, cleanVars, graphVars, loopVars, driverVars, skillVars,
    ardVars>>
notSkill == <<apiKey, sdkVars, cleanVars, graphVars, loopVars, driverVars, wiringVars,
    ardVars>>
notArd == <<apiKey, sdkVars, cleanVars, graphVars, loopVars, driverVars, wiringVars, skillVars>>

-----------------------------------------------------------------------------
(* Generic sequence helpers (Python list / str primitives).                *)

RECURSIVE Flatten(_)
\* ''.join(seqs) / f.writelines(seqs)
Flatten(seqs) ==
    IF seqs = <<>> THEN <<>> ELSE Head(seqs) \o Flatten(Tail(seqs))

\* x in list
InList(x, list) == \E i \in 1..Len(list) : list[i] = x

\* tok in line, for a one-token needle
HasToken(line, tok) == \E i \in 1..Len(line) : line[i] = tok

\* All sequences of at most n elements of S
SeqsUpTo(S, n) == UNION {[1..k -> S] : k \in 0..n}

-----------------------------------------------------------------------------
(* configure_lvgl_fonts.py                                                 *)

NL == "\n"
KEY == "CONFIG_LV_FONT_MONTSERRAT_"
PFX == "lv_font_montserrat_"
DigitChars == <<"0", "1", "2", "3", "4", "5", "6", "7", "8", "9">>
IsDigit(c) == InList(c, DigitChars)
DigitVal(c) == (CHOOSE i \in 1..10 : DigitChars[i] = c) - 1

RECURSIVE str(_)
\* str(size) for a non-negative int: its decimal digits
str(n) ==
    IF n < 10 THEN <<DigitChars[n + 1]>>
    ELSE str(n \div 10) \o <<DigitChars[(n % 10) + 1]>>

RECURSIVE int(_)
\* int(token) for a string of digits (leading zeros allowed)
int(tok) ==
    IF tok = <<>> THEN 0
    ELSE 10 * int(SubSeq(tok, 1, Len(tok) - 1)) + DigitVal(tok[Len(tok)])

\* All available montserrat fonts
all_sizes == <<20, 22, 24, 26, 28, 30, 32, 34, 36>>

RECURSIVE DigitRun(_, _)
\* the greedy \d+ capture starting at position i of text (empty: no digit there)
DigitRun(text, i) ==
    IF i > Len(text) \/ ~IsDigit(text[i]) THEN <<>>
    ELSE <<text[i]>> \o DigitRun(text, i + 1)

RECURSIVE findall(_, _)
\* font_pattern.findall(content) from position i: the captured groups, in order
findall(content, i) ==
    IF i > Len(content) THEN <<>>
    ELSE IF content[i] = PFX /\ DigitRun(content, i + 1) # <<>>
         THEN <<DigitRun(content, i + 1)>>
              \o findall(content, i + 1 + Len(DigitRun(content, i + 1)))
         ELSE findall(content, i + 1)

\* fonts_used after the scan: the set of captured tokens
fonts_found(content) == {findall(content, 1)[i] : i \in 1..Len(findall(content, 1))}

\* sorted(fonts_used, key=int): every ordering of the set that ascends by int
\* (Python's order among tokens of equal int value follows set iteration order)
SortedByInt(S) ==
    {s \in [1..Cardinality(S) -> S] :
        /\ \A i, j \in 1..Cardinality(S) : i # j => s[i] # s[j]
        /\ \A i, j \in 1..Cardinality(S) : i < j => int(s[i]) <= int(s[j])}

\* extract_fonts_from_code(project_root): the possible return values
extract_fonts_from_code(content) == SortedByInt(fonts_found(content))

\* f.readlines(): the lines, each keeping its terminator; the last may have none
readlines(data) ==
    LET ends == SelectSeq([i \in 1..Len(data) |-> i], LAMBDA i : data[i] = NL)
        cuts == <<0>> \o ends
                \o (IF data # <<>> /\ data[Len(data)] # NL THEN <<Len(data)>> ELSE <<>>)
    IN  <<>> \o [k \in 1..(Len(cuts) - 1) |-> SubSeq(data, cuts[k] + 1, cuts[k + 1])]

\* config_lines: the existing file's lines, [] when the file does not exist
config_lines(file) == IF file.exists THEN readlines(file.data) ELSE <<>>

EnabledLine(size) == <<KEY>> \o str(size) \o <<"=y", NL>>
DisabledLine(size) == <<"# ", KEY>> \o str(size) \o <<" is not set", NL>>

\* Build new config section for fonts
new_font_config(fonts_used) ==
    [i \in 1..Len(all_sizes) |->
        IF InList(str(all_sizes[i]), fonts_used)
        THEN EnabledLine(all_sizes[i])
        ELSE DisabledLine(all_sizes[i])]

\* Remove old font config lines
filtered_lines(lines) == SelectSeq(lines, LAMBDA line : ~HasToken(line, KEY))

\* The file update_sdkconfig writes back
written_sdkconfig(file, fonts_used) ==
    [exists |-> TRUE,
     data |-> Flatten(filtered_lines(config_lines(file)) \o new_font_config(fonts_used))]

\* update_sdkconfig(sdkconfig_path, fonts_used): rewrite the file, print the report
update_sdkconfig(fonts_used) ==
    /\ sdkconfig' = written_sdkconfig(sdkconfig, fonts_used)
    /\ printed' = [kind |-> "updated", fonts |-> fonts_used]
    /\ sdkBefore' = sdkconfig
    /\ fontsBefore' = fontsLast
    /\ fontsLast' = fonts_used
    /\ runs' = runs + 1

-----------------------------------------------------------------------------
(* Python str primitives over character sequences.                         *)

SP == " "
Whitespace == {SP, NL, "\t", "\r"}

RECURSIVE lstrip(_)
lstrip(t) == IF t # <<>> /\ Head(t) \in Whitespace THEN lstrip(Tail(t)) ELSE t

RECURSIVE rstrip(_)
rstrip(t) ==
    IF t # <<>> /\ t[Len(t)] \in Whitespace THEN rstrip(SubSeq(t, 1, Len(t) - 1)) ELSE t

\* t.strip()
strip(t) == rstrip(lstrip(t))

\* t.startswith(p), t.endswith(p)
startswith(t, p) == Len(t) >= Len(p) /\ SubSeq(t, 1, Len(p)) = p
endswith(t, p) == Len(t) >= Len(p) /\ SubSeq(t, Len(t) - Len(p) + 1, Len(t)) = p

\* t[k:] and t[:-k]
DropFirst(t, k) == SubSeq(t, k + 1, Len(t))
DropLast(t, k) == SubSeq(t, 1, Len(t) - k)

\* sub in t
Contains(t, sub) ==
    \E i \in 0..(Len(t) - Len(sub)) : SubSeq(t, i + 1, i + Len(sub)) = sub

LowerLetters ==
    <<"a", "b", "c", "d", "e", "f", "g", "h", "i", "j", "k", "l", "m",
      "n", "o", "p", "q", "r", "s", "t", "u", "v", "w", "x", "y", "z">>
UpperLetters ==
    <<"A", "B", "C", "D", "E", "F", "G", "H", "I", "J", "K", "L", "M",
      "N", "O", "P", "Q", "R", "S", "T", "U", "V", "W", "X", "Y", "Z">>

UpperChar(c) ==
    IF InList(c, LowerLetters)
    THEN UpperLetters[CHOOSE i \in 1..Len(LowerLetters) : LowerLetters[i] = c]
    ELSE c
LowerChar(c) ==
    IF InList(c, UpperLetters)
    THEN LowerLetters[CHOOSE i \in 1..Len(UpperLetters) : UpperLetters[i] = c]
    ELSE c

\* t.upper(), t.lower()
upper(t) == [i \in 1..Len(t) |-> UpperChar(t[i])]
lower(t) == [i \in 1..Len(t) |-> LowerChar(t[i])]

RECURSIVE splitFrom(_, _, _)
splitFrom(t, i, cur) ==
    IF i > Len(t) THEN <<cur>>
    ELSE IF t[i] = NL THEN <<cur>> \o splitFrom(t, i + 1, <<>>)
    ELSE splitFrom(t, i + 1, Append(cur, t[i]))

\* t.split('\n'): at least one element, none holding a newline
split_lines(t) == splitFrom(t, 1, <<>>)

RECURSIVE join_lines(_)
\* '\n'.join(lines)
join_lines(lines) ==
    IF lines = <<>> THEN <<>>
    ELSE IF Len(lines) = 1 THEN lines[1]
    ELSE lines[1] \o <<NL>> \o join_lines(Tail(lines))

RECURSIVE rfindFrom(_, _, _)
rfindFrom(t, c, i) ==
    IF i = 0 \/ t[i] = c THEN i ELSE rfindFrom(t, c, i - 1)

\* t.rfind(c) + 1: the 1-based position of the last c in t, 0 when there is none
rfind(t, c) == rfindFrom(t, c, Len(t))

(* Python dict as the sequence of its <<key, value>> items, in insertion order. *)

\* the position of key k in dict d, 0 when absent
KeyIndex(d, k) ==
    IF \E i \in 1..Len(d) : d[i][1] = k
    THEN CHOOSE i \in 1..Len(d) : d[i][1] = k
    ELSE 0

\* d[k] = v on a dict: a new key goes last, an existing key keeps its place
DictSet(d, k, v) ==
    IF KeyIndex(d, k) = 0 THEN Append(d, <<k, v>>)
    ELSE [d EXCEPT ![KeyIndex(d, k)] = <<k, v>>]

-----------------------------------------------------------------------------
(* generate_code: the clean-up of response.content, in both packages.      *)

\* the backquote character (SANY's strings cannot hold it)
BT == "BACKQUOTE"
FENCE == <<BT, BT, BT>>
FENCE_C == FENCE \o <<"c">>
FENCE_CPP == FENCE \o <<"c", "p", "p">>
FENCE_CXX == FENCE \o <<"c", "+", "+">>
FENCE_ARDUINO == FENCE \o <<"a", "r", "d", "u", "i", "n", "o">>
BRACE == "}"
SLASHES == <<"/", "/">>
MARK_WIRING_DIAGRAM ==
    <<"*", "*", "W", "I", "R", "I", "N", "G", " ", "D", "I", "A", "G", "R", "A", "M", "*", "*">>
MARK_CONNECTION == <<"*", "*", "C", "O", "N", "N", "E", "C", "T", "I", "O", "N">>
MARK_EQ_WIRING == <<"=", "=", "=", " ", "W", "I", "R", "I", "N", "G">>
HASH_SP == <<"#", " ">>
WIRING_LOWER == <<"w", "i", "r", "i", "n", "g">>

\* code.split('\n', 1)[1]: the text after the first newline; IndexError without one
AfterFirstLine(code) ==
    IF \E i \in 1..Len(code) : code[i] = NL
    THEN [raised |-> FALSE,
          code |-> DropFirst(code, CHOOSE i \in 1..Len(code) :
                                      code[i] = NL /\ \A j \in 1..(i - 1) : code[j] # NL)]
    ELSE [raised |-> TRUE, code |-> <<>>]

\* agent_arduino only: drop the opener line of a cpp, c++ or arduino fence
strip_opener_line(code) ==
    IF startswith(code, FENCE_CPP) \/ startswith(code, FENCE_CXX)
          \/ startswith(code, FENCE_ARDUINO)
    THEN LET rest == AfterFirstLine(code)
         IN  [raised |-> rest.raised, code |-> strip(rest.code)]
    ELSE [raised |-> FALSE, code |-> code]

\* Clean up any markdown formatting: the three tests both packages share
strip_fences(code) ==
    LET c1 == IF startswith(code, FENCE_C) THEN strip(DropFirst(code, 4)) ELSE code
        c2 == IF startswith(c1, FENCE) THEN strip(DropFirst(c1, 3)) ELSE c1
    IN  IF endswith(c2, FENCE) THEN strip(DropLast(c2, 3)) ELSE c2

\* is_end_marker without its markdown-heading test
is_end_marker_no_heading(line) ==
    LET line_upper == upper(line)
    IN  \/ Contains(line_upper, MARK_WIRING_DIAGRAM)
        \/ Contains(line_upper, MARK_CONNECTION)
        \/ Contains(line_upper, MARK_EQ_WIRING)

\* the test that ends the scan: a clear non-code marker
is_end_marker(line) ==
    LET line_upper == upper(line)
    IN  \/ Contains(line_upper, MARK_WIRING_DIAGRAM)
        \/ Contains(line_upper, MARK_CONNECTION)
        \/ Contains(line_upper, MARK_EQ_WIRING)
        \/ (startswith(strip(line), HASH_SP) /\ Contains(lower(line), WIRING_LOWER))

RECURSIVE clean_lines(_)
\* the lines kept by the scan: those before the first marker line
clean_lines(lines) ==
    IF lines = <<>> \/ is_end_marker(Head(lines)) THEN <<>>
    ELSE <<Head(lines)>> \o clean_lines(Tail(lines))

\* code after the scan: '\n'.join(clean_lines).strip()
scan_markers(code) == strip(join_lines(clean_lines(split_lines(code))))

\* potential_end = code[last_brace + 1:]
potential_end(code) == DropFirst(code, rfind(code, BRACE))

\* remove trailing non-code content after the last closing brace
truncate_after_brace(code) ==
    LET last_brace == rfind(code, BRACE)
        end == strip(potential_end(code))
    IN  IF last_brace # 0 /\ end # <<>> /\ ~startswith(end, SLASHES)
        THEN strip(SubSeq(code, 1, last_brace))
        ELSE code

\* code after the fence tests of src/agent/graph.py (lines 140-148)
defenced_agent(content) == [raised |-> FALSE, code |-> strip_fences(strip(content))]

\* code after the fence tests of src/agent_arduino/graph.py (lines 195-205)
defenced_arduino(content) ==
    LET opened == strip_opener_line(strip(content))
    IN  IF opened.raised
        THEN [raised |-> TRUE, code |-> <<>>]
        ELSE [raised |-> FALSE, code |-> strip_fences(opened.code)]

\* code after the marker scan, before the closing-brace test
scanned(pkg, content) ==
    LET d == IF pkg = "agent" THEN defenced_agent(content) ELSE defenced_arduino(content)
    IN  IF d.raised THEN d ELSE [raised |-> FALSE, code |-> scan_markers(d.code)]

\* generate_code from response.content to the returned code, or the raise
clean_code(pkg, content) ==
    LET sc == scanned(pkg, content)
    IN  IF sc.raised
        THEN [raised |-> TRUE, code |-> <<>>]
        ELSE [raised |-> FALSE, code |-> truncate_after_brace(sc.code)]

-----------------------------------------------------------------------------
(* skillsets.py of both packages: the catalog entries, the registry       *)
(* SKILLSETS and get_skillset.                                             *)

\* the characters of the catalog in code point order, for str comparison
CodePoints ==
    <<" ", "(", ")", ".", "0", "1", "2", "3", "4", "5", "6", "7", "8", "9", "A", "B", "C", "D",
      "E", "G", "H", "I", "K", "L", "M", "N", "O", "P", "R", "S", "T", "U", "V", "W", "_", "a",
      "c", "d", "e", "h", "i", "k", "l", "n", "o", "p", "r", "s", "t", "u", "y">>

\* ord(c), as far as the order of the catalog's characters goes
Ord(c) == CHOOSE i \in 1..Len(CodePoints) : CodePoints[i] = c

\* a < b on two str: they agree up to some place where a has ended or holds
\* the lesser character
LessStr(a, b) ==
    LET n == IF Len(a) < Len(b) THEN Len(a) ELSE Len(b)
    IN  IF SubSeq(a, 1, n) = SubSeq(b, 1, n) THEN Len(a) < Len(b)
        ELSE \E i \in 1..n : /\ a[i] # b[i]
                              /\ SubSeq(a, 1, i - 1) = SubSeq(b, 1, i - 1)
                              /\ Ord(a[i]) < Ord(b[i])

\* x < y on two (key, value) tuples
LessItem(x, y) == LessStr(x[1], y[1]) \/ (x[1] = y[1] /\ LessStr(x[2], y[2]))

\* sorted(d.items()): the keys of a dict differ, so an item's place is one more
\* than the number of items below it
sorted(items) ==
    LET below == <<>> \o [k \in 1..Len(items) |->
                            Cardinality({j \in 1..Len(items) : LessItem(items[j], items[k])})]
    IN  <<>> \o [i \in 1..Len(items) |-> items[CHOOSE k \in 1..Len(items) : below[k] = i - 1]]

\* agent/skillsets.py ESP32_S3_BOX_3: the name, the description and the
\* gpio_mapping dict, its items in insertion order
ESP32_S3_BOX_3 ==
    [ platform_name |-> <<"E", "S", "P", "3", "2", "-", "S", "3", "-", "B", "O", "X", "-", "3">>,
      description |->
        <<"C", "o", "m", "p", "a", "c", "t", " ", "A", "I", " ", "d", "e", "v", "e", "l", "o",
          "p", "m", "e", "n", "t", " ", "b", "o", "a", "r", "d", " ", "w", "i", "t", "h", " ",
          "i", "n", "t", "e", "g", "r", "a", "t", "e", "d", " ", "d", "i", "s", "p", "l", "a",
          "y", " ", "a", "n", "d", " ", "a", "u", "d", "i", "o">>,
      gpio_mapping |-> <<
        <<<<"R", "S", "T", " ", "B", "u", "t", "t", "o", "n">>,
          <<"R", "E", "S", "E", "T">>>>,
        <<<<"D", "i", "s", "p", "l", "a", "y", " ", "C", "S">>,
          <<"G", "P", "I", "O", " ", "5">>>>,
        <<<<"D", "i", "s", "p", "l", "a", "y", " ", "D", "C">>,
          <<"G", "P", "I", "O", " ", "4">>>>,
        <<<<"D", "i", "s", "p", "l", "a", "y", " ", "R", "S", "T">>,
          <<"G", "P", "I", "O", " ", "9">>>>,
        <<<<"D", "i", "s", "p", "l", "a", "y", " ", "C", "L", "K", " ", "(", "S", "P", "I",
            ")">>,
          <<"G", "P", "I", "O", " ", "7">>>>,
        <<<<"D", "i", "s", "p", "l", "a", "y", " ", "M", "O", "S", "I", " ", "(", "S", "P",
            "I", ")">>,
          <<"G", "P", "I", "O", " ", "6">>>>,
        <<<<"D", "i", "s", "p", "l", "a", "y", " ", "M", "I", "S", "O", " ", "(", "S", "P",
            "I", ")">>,
          <<"G", "P", "I", "O", " ", "8">>>>,
        <<<<"I", "M", "U", " ", "S", "D", "A">>,
          <<"G", "P", "I", "O", " ", "8">>>>,
        <<<<"I", "M", "U", " ", "S", "C", "L">>,
          <<"G", "P", "I", "O", " ", "9">>>>,
        <<<<"M", "i", "c", "r", "o", "p", "h", "o", "n", "e", " ", "C", "L", "K">>,
          <<"G", "P", "I", "O", " ", "3", "2">>>>,
        <<<<"M", "i", "c", "r", "o", "p", "h", "o", "n", "e", " ", "W", "S">>,
          <<"G", "P", "I", "O", " ", "3", "3">>>>,
        <<<<"M", "i", "c", "r", "o", "p", "h", "o", "n", "e", " ", "S", "D">>,
          <<"G", "P", "I", "O", " ", "3", "4">>>>,
        <<<<"S", "p", "e", "a", "k", "e", "r", " ", "L", "R", "C", "K">>,
          <<"G", "P", "I", "O", " ", "3", "3">>>>,
        <<<<"S", "p", "e", "a", "k", "e", "r", " ", "B", "C", "L", "K">>,
          <<"G", "P", "I", "O", " ", "3", "2">>>>,
        <<<<"S", "p", "e", "a", "k", "e", "r", " ", "D", "O", "U", "T">>,
          <<"G", "P", "I", "O", " ", "3", "5">>>>,
        <<<<"R", "G", "B", " ", "L", "E", "D", " ", "R", "e", "d">>,
          <<"G", "P", "I", "O", " ", "2", "1">>>>,
        <<<<"R", "G", "B", " ", "L", "E", "D", " ", "G", "r", "e", "e", "n">>,
          <<"G", "P", "I", "O", " ", "4", "7">>>>,
        <<<<"R", "G", "B", " ", "L", "E", "D", " ", "B", "l", "u", "e">>,
          <<"G", "P", "I", "O", " ", "4", "8">>>>,
        <<<<"W", "h", "i", "t", "e", " ", "L", "E", "D">>,
          <<"G", "P", "I", "O", " ", "4", "6">>>>,
        <<<<"B", "r", "e", "a", "d", " ", "G", "P", "I", "O", " ", "9">>,
          <<"G", "P", "I", "O", " ", "9">>>>,
        <<<<"B", "r", "e", "a", "d", " ", "G", "P", "I", "O", " ", "1", "0">>,
          <<"G", "P", "I", "O", " ", "1", "0">>>>,
        <<<<"B", "r", "e", "a", "d", " ", "G", "P", "I", "O", " ", "1", "1">>,
          <<"G", "P", "I", "O", " ", "1", "1">>>>,
        <<<<"B", "r", "e", "a", "d", " ", "G", "P", "I", "O", " ", "1", "2">>,
          <<"G", "P", "I", "O", " ", "1", "2">>>>,
        <<<<"B", "r", "e", "a", "d", " ", "G", "P", "I", "O", " ", "1", "3">>,
          <<"G", "P", "I", "O", " ", "1", "3">>>>,
        <<<<"B", "r", "e", "a", "d", " ", "G", "P", "I", "O", " ", "1", "4">>,
          <<"G", "P", "I", "O", " ", "1", "4">>>>,
        <<<<"B", "r", "e", "a", "d", " ", "G", "P", "I", "O", " ", "1", "9">>,
          <<"G", "P", "I", "O", " ", "1", "9">>>>,
        <<<<"B", "r", "e", "a", "d", " ", "G", "P", "I", "O", " ", "2", "0">>,
          <<"G", "P", "I", "O", " ", "2", "0">>>>,
        <<<<"B", "r", "e", "a", "d", " ", "G", "P", "I", "O", " ", "2", "1">>,
          <<"G", "P", "I", "O", " ", "2", "1">>>>,
        <<<<"B", "r", "e", "a", "d", " ", "G", "P", "I", "O", " ", "3", "8">>,
          <<"G", "P", "I", "O", " ", "3", "8">>>>,
        <<<<"B", "r", "e", "a", "d", " ", "G", "P", "I", "O", " ", "3", "9">>,
          <<"G", "P", "I", "O", " ", "3", "9">>>>,
        <<<<"B", "r", "e", "a", "d", " ", "G", "P", "I", "O", " ", "4", "0">>,
          <<"G", "P", "I", "O", " ", "4", "0">>>>,
        <<<<"B", "r", "e", "a", "d", " ", "G", "P", "I", "O", " ", "4", "1">>,
          <<"G", "P", "I", "O", " ", "4", "1">>>>,
        <<<<"B", "r", "e", "a", "d", " ", "G", "P", "I", "O", " ", "4", "2">>,
          <<"G", "P", "I", "O", " ", "4", "2">>>>,
        <<<<"B", "r", "e", "a", "d", " ", "G", "P", "I", "O", " ", "4", "3">>,
          <<"G", "P", "I", "O", " ", "4", "3">>>>,
        <<<<"B", "r", "e", "a", "d", " ", "G", "P", "I", "O", " ", "4", "4">>,
          <<"G", "P", "I", "O", " ", "4", "4">>>>,
        <<<<"B", "r", "e", "a", "d", " ", "G", "N", "D">>,
          <<"G", "N", "D">>>>,
        <<<<"B", "r", "e", "a", "d", " ", "3", ".", "3", "V">>,
          <<"3", ".", "3", "V">>>>,
        <<<<"A", "D", "C", "1", "_", "C", "H", "A", "N", "N", "E", "L", "_", "8", "_", "G",
            "P", "I", "O", "_", "N", "U", "M">>,
          <<"9">>>>,
        <<<<"A", "D", "C", "1", "_", "C", "H", "A", "N", "N", "E", "L", "_", "9", "_", "G",
            "P", "I", "O", "_", "N", "U", "M">>,
          <<"1", "0">>>>,
        <<<<"A", "D", "C", "2", "_", "C", "H", "A", "N", "N", "E", "L", "_", "0", "_", "G",
            "P", "I", "O", "_", "N", "U", "M">>,
          <<"1", "1">>>>,
        <<<<"A", "D", "C", "2", "_", "C", "H", "A", "N", "N", "E", "L", "_", "1", "_", "G",
            "P", "I", "O", "_", "N", "U", "M">>,
          <<"1", "2">>>>,
        <<<<"A", "D", "C", "2", "_", "C", "H", "A", "N", "N", "E", "L", "_", "2", "_", "G",
            "P", "I", "O", "_", "N", "U", "M">>,
          <<"1", "3">>>>,
        <<<<"A", "D", "C", "2", "_", "C", "H", "A", "N", "N", "E", "L", "_", "3", "_", "G",
            "P", "I", "O", "_", "N", "U", "M">>,
          <<"1", "4">>>>,
        <<<<"A", "D", "C", "2", "_", "C", "H", "A", "N", "N", "E", "L", "_", "8", "_", "G",
            "P", "I", "O", "_", "N", "U", "M">>,
          <<"1", "9">>>>,
        <<<<"A", "D", "C", "2", "_", "C", "H", "A", "N", "N", "E", "L", "_", "9", "_", "G",
            "P", "I", "O", "_", "N", "U", "M">>,
          <<"2", "0">>>>
      >> ]

\* agent_arduino/skillsets.py ARDUINO_MEGA_2560_R3: the name and the description
ARDUINO_MEGA_2560_R3 ==
    [ platform_name |-> <<"A", "r", "d", "u", "i", "n", "o", " ", "M", "e", "g", "a", " ", "2", "5", "6", "0",
          " ", "R", "3">>,
      description |->
        <<"H", "i", "g", "h", "-", "p", "e", "r", "f", "o", "r", "m", "a", "n", "c", "e", " ",
          "A", "r", "d", "u", "i", "n", "o", " ", "b", "o", "a", "r", "d", " ", "w", "i", "t",
          "h", " ", "e", "x", "t", "e", "n", "s", "i", "v", "e", " ", "I", "/", "O", " ", "c",
          "a", "p", "a", "b", "i", "l", "i", "t", "i", "e", "s">> ]

\* SKILLSETS of package pkg: the registered identifiers in insertion order
SKILLSETS(pkg) ==
    IF pkg = "agent"
    THEN << <<<<"e", "s", "p", "3", "2", "-", "s", "3", "-", "b", "o", "x", "-", "3">>, ESP32_S3_BOX_3>>,
            <<<<"e", "s", "p", "3", "2", "-", "s", "3", "-", "b", "o", "x", "3">>, ESP32_S3_BOX_3>>,
            <<<<"b", "o", "x", "-", "3">>, ESP32_S3_BOX_3>> >>
    ELSE << <<<<"a", "r", "d", "u", "i", "n", "o", "-", "m", "e", "g", "a", "-", "2", "5", "6",
              "0", "-", "r", "3">>,
              ARDUINO_MEGA_2560_R3>>,
            <<<<"m", "e", "g", "a", "-", "2", "5", "6", "0">>,
              ARDUINO_MEGA_2560_R3>>,
            <<<<"m", "e", "g", "a">>,
              ARDUINO_MEGA_2560_R3>> >>

MEGA == <<"m", "e", "g", "a">>

RECURSIVE join(_, _)
\* sep.join(strs)
join(sep, strs) ==
    IF strs = <<>> THEN <<>>
    ELSE IF Len(strs) = 1 THEN strs[1]
    ELSE strs[1] \o sep \o join(sep, Tail(strs))

\* SKILLSETS.keys()
keys(d) == [i \in 1..Len(d) |-> d[i][1]]

UNKNOWN_PLATFORM == <<"U", "n", "k", "n", "o", "w", "n", " ", "p", "l", "a", "t", "f", "o", "r", "m", ":", " ">>
AVAILABLE_PLATFORMS ==
    <<"A", "v", "a", "i", "l", "a", "b", "l", "e", " ", "p", "l", "a", "t", "f", "o", "r", "m", "s", ":", " ">>

\* the ValueError of get_skillset for platform_name
UnknownPlatform(pkg, platform_name) ==
    [ raises |-> "ValueError",
      message |-> UNKNOWN_PLATFORM \o platform_name \o <<NL>> \o AVAILABLE_PLATFORMS
                  \o join(<<",", " ">>, keys(SKILLSETS(pkg))) ]

\* a lookup that trims the identifier but keeps its letter case
get_skillset_case_sensitive(pkg, platform_name) ==
    LET name == strip(platform_name)
        at == KeyIndex(SKILLSETS(pkg), name)
    IN  IF at = 0
        THEN UnknownPlatform(pkg, platform_name)
        ELSE [raises |-> "", skillset |-> SKILLSETS(pkg)[at][2]]

\* get_skillset of package pkg: the entry registered under the lower-cased,
\* stripped identifier, or the ValueError
get_skillset(pkg, platform_name) ==
    LET name == strip(lower(platform_name))
        at == KeyIndex(SKILLSETS(pkg), name)
    IN  IF at = 0
        THEN UnknownPlatform(pkg, platform_name)
        ELSE [raises |-> "", skillset |-> SKILLSETS(pkg)[at][2]]

-----------------------------------------------------------------------------
(* The pipelines: src/agent/graph.py `graph` and src/agent_arduino/graph.py *)
(* build_graph, run by graph.ainvoke.  A compiled StateGraph runs in steps: *)
(* the nodes of one step run as concurrent tasks on the State of the step's *)
(* start, their returned updates are applied when all of them have         *)
(* returned, and the next step holds every node that has an edge from a    *)
(* node of this step.  A node that raises aborts the run.                  *)

START == "__start__"

\* the node that generates the firmware code in pipeline p
CodeNode(p) == IF p = "agent" THEN "generate_code" ELSE "generate_code_loop"

\* the node that assembles the project in pipeline p
AssemblyNode(p) == IF p = "ESP-IDF" THEN "assemble_project_espidf" ELSE "assemble_project"

\* the edges added when GENERATE_WIRING_DIAGRAM is set
DiagramEdges(p) ==
    { <<"read_design", "generate_diagram">>, <<"generate_diagram", AssemblyNode(p)>> }

\* the edges with reconciliation hung off read_design instead of code generation
Edges_reconcile_from_design(p, w) ==
    (IF p = "ESP-IDF"
     THEN { <<START, "read_design">>,
            <<"read_design", "generate_code_loop">>,
            <<"read_design", "reconcile_sdkconfig">>,
            <<"reconcile_sdkconfig", "assemble_project_espidf">> }
     ELSE { <<START, "read_design">>,
            <<"read_design", CodeNode(p)>>,
            <<CodeNode(p), AssemblyNode(p)>> })
    \cup (IF w THEN DiagramEdges(p) ELSE {})

\* the add_edge calls of the graph for pipeline p with the flag w
Edges(p, w) ==
    (IF p = "ESP-IDF"
     THEN { <<START, "read_design">>,
            <<"read_design", "generate_code_loop">>,
            <<"generate_code_loop", "reconcile_sdkconfig">>,
            <<"reconcile_sdkconfig", "assemble_project_espidf">> }
     ELSE { <<START, "read_design">>,
            <<"read_design", CodeNode(p)>>,
            <<CodeNode(p), AssemblyNode(p)>> })
    \cup (IF w THEN DiagramEdges(p) ELSE {})

\* the add_node calls
Nodes(p, w) == {e[2] : e \in Edges(p, w)}

AllNodes ==
    { "read_design", "generate_code", "generate_code_loop", "generate_diagram",
      "reconcile_sdkconfig", "assemble_project", "assemble_project_espidf" }

\* the nodes triggered by the nodes in `done`: the targets of their edges
Triggered(p, w, done) == {e[2] : e \in {d \in Edges(p, w) : d[1] \in done}}

\* nodes whose body awaits the text-generation call (model.ainvoke); the other
\* nodes run from start to return without yielding to other tasks
AwaitingNodes == {"generate_code", "generate_diagram", "reconcile_sdkconfig"}

\* the steps that call the text-generation service
GenerationNodes ==
    {"generate_code", "generate_code_loop", "generate_diagram", "reconcile_sdkconfig"}

\* the State after the updates of a finished step are applied
Apply(st, ws) == [k \in DOMAIN st |-> IF k \in DOMAIN ws THEN ws[k] ELSE st[k]]

\* one more update returned in this step
Put(ws, k, v) == [x \in DOMAIN ws \cup {k} |-> IF x = k THEN v ELSE ws[x]]

\* the State field that holds the generated code in pipeline p
CodeField(p) == IF p = "agent" THEN "esp_idf_code" ELSE "firmware_code"

\* the fields of State (StateESPIDF for ESP-IDF) this model follows
StateFields(p) ==
    {"design", CodeField(p), "wiring_diagram", "message"}
    \cup (IF p = "ESP-IDF" THEN {"sdkconfig"} ELSE {})

\* the State dataclass with its defaults
EmptyState(p) == [k \in StateFields(p) |-> ""]

NoWrites == [k \in {} |-> ""]

\* the project files followed: "manifest" is main/CMakeLists.txt, "source" is
\* main/main.c (ESP-IDF) or <project>.ino (Arduino)
FileNames ==
    { "manifest", "source", "WIRING.json", "WIRING.md", "WIRING.svg", "README.md",
      "sdkconfig", "sdkconfig.defaults" }
NoFiles == [f \in FileNames |-> ""]

DEFAULT_SDKCONFIG == "default sdkconfig"

\* how save_wiring_diagram_all_formats can go: every format written; mmdc not
\* installed or failing (caught inside generate_mermaid_svg_locally); or an
\* exception out of the JSON, the Markdown or the SVG stage
SaveOutcomes == {"ok", "no_mmdc", "mmdc_failed", "json_raises", "md_raises", "svg_raises"}

NotSaved == [outcome |-> "none", saved |-> {}]

\* the wiring documents one call of save_wiring_diagram_all_formats writes
WiringWritten(outcome) ==
    CASE outcome = "json_raises" -> {}
      [] outcome = "md_raises" -> {"WIRING.json"}
      [] outcome = "ok" -> {"WIRING.json", "WIRING.md", "WIRING.svg"}
      [] OTHER -> {"WIRING.json", "WIRING.md"}

\* the keys of saved_files when the call ends
SavedFormats(outcome) ==
    CASE outcome = "json_raises" -> {}
      [] outcome = "md_raises" -> {"json"}
      [] outcome = "ok" -> {"json", "markdown", "svg"}
      [] OTHER -> {"json", "markdown"}

\* the files an execution of the assembly step leaves, given the State it
\* reads and the outcome of saving the wiring documents
Assembled(p, st, old, outcome) ==
    [f \in FileNames |->
        CASE f = "manifest" -> IF p = "Arduino" THEN old[f] ELSE "SRCS main.c"
          [] f = "source" -> IF st[CodeField(p)] # "" THEN st[CodeField(p)] ELSE old[f]
          [] f \in {"WIRING.json", "WIRING.md", "WIRING.svg"} ->
                IF st.wiring_diagram # "" /\ f \in WiringWritten(outcome)
                THEN st.wiring_diagram ELSE old[f]
          [] f = "README.md" -> "readme"
          [] f = "sdkconfig" ->
                IF p = "Arduino" THEN old[f]
                ELSE IF p = "ESP-IDF" /\ st.sdkconfig # "" THEN st.sdkconfig
                ELSE DEFAULT_SDKCONFIG
          [] f = "sdkconfig.defaults" ->
                IF p = "Arduino" THEN old[f] ELSE "CONFIG_IDF_TARGET"]

\* the design files a run may find: none, an empty one, one holding only
\* whitespace, and two with a design in them
DesignTexts == { <<>>, <<SP, NL>>, <<"d">>, <<SP, "d", NL>> }
DesignFiles ==
    {[exists |-> FALSE, text |-> <<>>]} \cup {[exists |-> TRUE, text |-> t] : t \in DesignTexts}

\* state.design_file: the path the drivers use by default (DESIGN_FILE_PATH of
\* config.py, the file batch_eval.py writes) or another one
DESIGN_TXT == "design.txt"
DesignPaths == {DESIGN_TXT, "designs/blink.txt"}

\* the file design.txt of the working directory when state.design_file is
\* another file: none, an empty one, one with another design
CwdDesigns ==
    {[exists |-> FALSE, text |-> <<>>], [exists |-> TRUE, text |-> <<>>],
     [exists |-> TRUE, text |-> <<"e", NL>>]}

NoTask == [given |-> FALSE, text |-> <<>>]

\* what the text-generation steps may return
CodeOutputs == {"", "code"}
DiagramOutputs == {"", "wiring text"}
SdkOutputs == {"", "reconciled sdkconfig"}

Mark(n, status) == [tasks EXCEPT ![n] = status]
Count(f, n) == [f EXCEPT ![n] = @ + 1]

\* a node raised: the run is aborted, the other tasks of the step are cancelled
Raise(kind) ==
    /\ runStatus' = "failed"
    /\ raised' = kind
    /\ tasks' = [n \in {} |-> "pending"]
    /\ writes' = NoWrites

Pending(n) == runStatus = "running" /\ n \in DOMAIN tasks /\ tasks[n] = "pending"
Running(n) == runStatus = "running" /\ n \in DOMAIN tasks /\ tasks[n] = "running"

\* read_design that accepts a design file with no text
read_design_any_text ==
    /\ Pending("read_design")
    /\ executed' = Count(executed, "read_design")
    /\ IF designFile.exists
       THEN /\ tasks' = Mark("read_design", "done")
            /\ writes' = Put(writes, "design", strip(designFile.text))
            /\ completed' = Count(completed, "read_design")
            /\ UNCHANGED <<runStatus, raised>>
       ELSE Raise("ValueError") /\ UNCHANGED completed
    /\ UNCHANGED <<pipeline, statePlatform, wiringOn, viaDriver, designFile, designPath, cwdDesign, agentTask, state, assemblies, files, wiringSave>>

\* read_design: raise for a missing design file or one whose stripped text is
\* empty, else return the stripped text as the design
read_design ==
    /\ Pending("read_design")
    /\ executed' = Count(executed, "read_design")
    /\ IF designFile.exists /\ strip(designFile.text) # <<>>
       THEN /\ tasks' = Mark("read_design", "done")
            /\ writes' = Put(writes, "design", strip(designFile.text))
            /\ completed' = Count(completed, "read_design")
            /\ UNCHANGED <<runStatus, raised>>
       ELSE Raise("ValueError") /\ UNCHANGED completed
    /\ UNCHANGED <<pipeline, statePlatform, wiringOn, viaDriver, designFile, designPath, cwdDesign, agentTask, state, assemblies, files, wiringSave>>

\* what a step raises when ANTHROPIC_API_KEY is not set (a ValueError)
MissingKey == "ValueError: ANTHROPIC_API_KEY"

\* build_graph (get_config validates the key) or, for the agent package, the
\* graph compiled at import; a driver script checks the key before that.  With
\* the key absent only a direct use of the agent package's graph gets to run.
launch ==
    /\ runStatus = "launching"
    /\ IF ~apiKey /\ (pipeline # "agent" \/ viaDriver)
       THEN Raise(MissingKey)
       ELSE /\ runStatus' = "running"
            /\ tasks' = [n \in Triggered(pipeline, wiringOn, {START}) |-> "pending"]
            /\ UNCHANGED <<writes, raised>>
    /\ UNCHANGED <<pipeline, statePlatform, wiringOn, viaDriver, designFile, designPath, cwdDesign, agentTask, state, executed, completed,
                   assemblies, files, wiringSave>>

ARDUINO == <<"A", "r", "d", "u", "i", "n", "o">>
ESP_IDF == <<"E", "S", "P", "-", "I", "D", "F">>

\* what a step raises when get_skillset does not know state.platform
InvalidPlatform == "ValueError: Invalid platform specified"

\* what node n raises for state.platform before its model call, "" when it
\* raises nothing.  src/agent/graph.py generate_code and generate_diagram
\* look the platform up in the package's SKILLSETS.  src/agent_arduino/graph.py
\* generate_diagram calls get_config(state.platform), which knows "ESP-IDF"
\* and "Arduino" only, and then looks the platform up in the package's
\* SKILLSETS; reconcile_sdkconfig calls get_config("ESP-IDF") and looks the
\* platform up in skillsets_espidf, taken here to know it.
PlatformCheck(n) ==
    IF pipeline = "agent"
    THEN IF get_skillset("agent", statePlatform).raises # "" THEN InvalidPlatform ELSE ""
    ELSE IF n = "generate_diagram"
    THEN IF statePlatform \notin {ESP_IDF, ARDUINO} THEN "NotImplementedError"
         ELSE IF get_skillset("agent_arduino", statePlatform).raises # "" THEN InvalidPlatform
         ELSE ""
    ELSE ""

\* a start of the model call that does not look at the key
StartCall_no_key_check(n) ==
    /\ n \in AwaitingNodes
    /\ Pending(n)
    /\ executed' = Count(executed, n)
    /\ IF PlatformCheck(n) = ""
       THEN /\ tasks' = Mark(n, "running")
            /\ UNCHANGED <<writes, runStatus, raised>>
       ELSE Raise(PlatformCheck(n))
    /\ UNCHANGED <<pipeline, statePlatform, wiringOn, viaDriver, designFile, designPath, cwdDesign, agentTask, state,
                   completed, assemblies, files, wiringSave>>

\* a node with an awaited model call, up to the await: raise when the key is
\* not set or the platform is not known, else the request is in flight.  In
\* src/agent_arduino/graph.py generate_diagram the get_config call rejects the
\* platform before it validates the key.
StartCall(n) ==
    /\ n \in AwaitingNodes
    /\ Pending(n)
    /\ executed' = Count(executed, n)
    /\ IF PlatformCheck(n) = "NotImplementedError" THEN Raise("NotImplementedError")
       ELSE IF ~apiKey THEN Raise(MissingKey)
       ELSE IF PlatformCheck(n) # "" THEN Raise(PlatformCheck(n))
       ELSE /\ tasks' = Mark(n, "running")
            /\ UNCHANGED <<writes, runStatus, raised>>
    /\ UNCHANGED <<pipeline, statePlatform, wiringOn, viaDriver, designFile, designPath, cwdDesign, agentTask, state,
                   completed, assemblies, files, wiringSave>>

\* the awaited call raised (timeout, transport failure, ...)
CallFails(n) ==
    /\ n \in AwaitingNodes
    /\ Running(n)
    /\ Raise("GenerationError")
    /\ UNCHANGED <<pipeline, statePlatform, wiringOn, viaDriver, designFile, designPath, cwdDesign, agentTask, state, executed, completed,
                   assemblies, files, wiringSave>>

\* the node returns update k = v
Return(n, k, v) ==
    /\ tasks' = Mark(n, "done")
    /\ writes' = Put(writes, k, v)
    /\ completed' = Count(completed, n)

\* src/agent/graph.py generate_code, from the response to the return
generate_code ==
    /\ Running("generate_code")
    /\ \E code \in CodeOutputs : Return("generate_code", "esp_idf_code", code)
    /\ UNCHANGED <<pipeline, statePlatform, wiringOn, viaDriver, designFile, designPath, cwdDesign, agentTask, state, runStatus, raised, executed,
                   assemblies, files, wiringSave>>

\* generate_diagram, from the response to the return
generate_diagram ==
    /\ Running("generate_diagram")
    /\ \E text \in DiagramOutputs : Return("generate_diagram", "wiring_diagram", text)
    /\ UNCHANGED <<pipeline, statePlatform, wiringOn, viaDriver, designFile, designPath, cwdDesign, agentTask, state, runStatus, raised, executed,
                   assemblies, files, wiringSave>>

\* reconcile_sdkconfig, from the response to the return
reconcile_sdkconfig ==
    /\ Running("reconcile_sdkconfig")
    /\ \E text \in SdkOutputs : Return("reconcile_sdkconfig", "sdkconfig", text)
    /\ UNCHANGED <<pipeline, statePlatform, wiringOn, viaDriver, designFile, designPath, cwdDesign, agentTask, state, runStatus, raised, executed,
                   assemblies, files, wiringSave>>

\* generate_code_loop: IoTAgent(state.platform) raises without the key and
\* asserts that the platform is "ESP-IDF" or "Arduino"; the task is read from
\* open("design.txt"), which raises when the working directory has no such
\* file; agent.run(...) is a blocking call, so the node runs from start to
\* return (or raise) without another task running in between
generate_code_loop ==
    /\ Pending("generate_code_loop")
    /\ executed' = Count(executed, "generate_code_loop")
    /\ IF ~apiKey THEN Raise(MissingKey) /\ UNCHANGED <<completed, agentTask>>
       ELSE IF statePlatform \notin {ESP_IDF, ARDUINO}
       THEN Raise("AssertionError") /\ UNCHANGED <<completed, agentTask>>
       ELSE IF ~cwdDesign.exists
       THEN Raise("FileNotFoundError") /\ UNCHANGED <<completed, agentTask>>
       ELSE /\ agentTask' = [given |-> TRUE, text |-> strip(cwdDesign.text)]
            /\ \/ /\ \E code \in CodeOutputs :
                        Return("generate_code_loop", "firmware_code", code)
                  /\ UNCHANGED <<runStatus, raised>>
               \/ Raise("GenerationError") /\ UNCHANGED completed
    /\ UNCHANGED <<pipeline, statePlatform, wiringOn, viaDriver, designFile, designPath, cwdDesign,
                   state, assemblies, files, wiringSave>>

\* an assembly step without the try/except around the wiring save: an exception
\* out of the save ends the step after the source file and the manifests
assemble_project_save_propagates ==
    /\ Pending(AssemblyNode(pipeline))
    /\ executed' = Count(executed, AssemblyNode(pipeline))
    /\ assemblies' = Append(assemblies, state)
    /\ IF state.wiring_diagram # ""
       THEN \E outcome \in SaveOutcomes :
                /\ wiringSave' = [outcome |-> outcome, saved |-> SavedFormats(outcome)]
                /\ IF outcome \in {"json_raises", "md_raises", "svg_raises"}
                   THEN /\ files' = [f \in FileNames |->
                                        IF f \in {"README.md", "sdkconfig", "sdkconfig.defaults"}
                                        THEN files[f]
                                        ELSE Assembled(pipeline, state, files, outcome)[f]]
                        /\ Raise("Exception")
                        /\ UNCHANGED completed
                   ELSE /\ files' = Assembled(pipeline, state, files, outcome)
                        /\ Return(AssemblyNode(pipeline), "message", "created successfully")
                        /\ UNCHANGED <<runStatus, raised>>
       ELSE /\ files' = Assembled(pipeline, state, files, "ok")
            /\ Return(AssemblyNode(pipeline), "message", "created successfully")
            /\ UNCHANGED <<wiringSave, runStatus, raised>>
    /\ UNCHANGED <<pipeline, statePlatform, wiringOn, viaDriver, designFile, designPath, cwdDesign, agentTask, state>>

\* assemble_project / assemble_project_espidf: write the project files from the
\* State of this step and return the success message
assemble_project ==
    /\ Pending(AssemblyNode(pipeline))
    /\ executed' = Count(executed, AssemblyNode(pipeline))
    /\ IF state.wiring_diagram # ""
       THEN \E outcome \in SaveOutcomes :
                /\ files' = Assembled(pipeline, state, files, outcome)
                /\ wiringSave' = [outcome |-> outcome, saved |-> SavedFormats(outcome)]
       ELSE /\ files' = Assembled(pipeline, state, files, "ok")
            /\ UNCHANGED wiringSave
    /\ assemblies' = Append(assemblies, state)
    /\ Return(AssemblyNode(pipeline), "message", "created successfully")
    /\ UNCHANGED <<pipeline, statePlatform, wiringOn, viaDriver, designFile, designPath, cwdDesign, agentTask, state, runStatus, raised>>

\* every task of the step has returned: apply the updates, trigger the next step
EndStep ==
    /\ runStatus = "running"
    /\ \A n \in DOMAIN tasks : tasks[n] = "done"
    /\ state' = Apply(state, writes)
    /\ writes' = NoWrites
    /\ tasks' = [n \in Triggered(pipeline, wiringOn, DOMAIN tasks) |-> "pending"]
    /\ runStatus' = IF Triggered(pipeline, wiringOn, DOMAIN tasks) = {}
                    THEN "finished" ELSE "running"
    /\ UNCHANGED <<pipeline, statePlatform, wiringOn, viaDriver, designFile, designPath, cwdDesign, agentTask, raised, executed, completed,
                   assemblies, files, wiringSave>>

-----------------------------------------------------------------------------
(* IoTAgent._run_agent_loop (src/agent_arduino/iot_agent.py): the tool-    *)
(* calling loop behind generate_code_loop.  A response is a stop_reason    *)
(* and a list of content blocks; a block is a text block or a tool_use     *)
(* block with an id.                                                       *)

max_iterations == 10

TextBlock(t) == [type |-> "text", text |-> t, id |-> ""]
ToolUse(i) == [type |-> "tool_use", text |-> "", id |-> i]

\* hasattr(block, 'text')
HasText(block) == block.type = "text"

\* the text of the first block that has one, "" when there is none
FirstText(content) ==
    IF \E i \in 1..Len(content) : HasText(content[i])
    THEN content[CHOOSE i \in 1..Len(content) :
                    /\ HasText(content[i])
                    /\ \A j \in 1..(i - 1) : ~HasText(content[j])].text
    ELSE ""

\* assistant_content: the tool_use blocks of the response, in order
ToolBlocks(content) == SelectSeq(content, LAMBDA b : b.type = "tool_use")

\* the ids of a list of blocks
Ids(blocks) == [i \in 1..Len(blocks) |-> blocks[i].id]

\* tool_result blocks built in the reverse order of assistant_content
ToolResults_reversed(blocks) ==
    [i \in 1..Len(blocks) |->
        [type |-> "tool_result", tool_use_id |-> blocks[Len(blocks) + 1 - i].id]]

\* the tool_result blocks built from assistant_content
ToolResults(blocks) ==
    [i \in 1..Len(blocks) |-> [type |-> "tool_result", tool_use_id |-> blocks[i].id]]

\* the model responses the loop is run against
Responses_model ==
    { [stop_reason |-> "end_turn", content |-> <<TextBlock("T")>>],
      [stop_reason |-> "end_turn", content |-> <<>>],
      [stop_reason |-> "end_turn", content |-> <<ToolUse("a"), TextBlock("U")>>],
      [stop_reason |-> "max_tokens", content |-> <<TextBlock("T")>>],
      [stop_reason |-> "tool_use", content |-> <<ToolUse("a")>>],
      [stop_reason |-> "tool_use", content |-> <<TextBlock("T"), ToolUse("a"), ToolUse("b")>>] }

NoResponse == [stop_reason |-> "", content |-> <<>>]

\* the loop returns text
LoopReturn(text) ==
    /\ loopPc' = "returned"
    /\ loopResult' = text

\* one pass of the while body: call the model, then either return the final
\* text or run the requested tools and extend the history
LoopIteration ==
    /\ loopPc = "call"
    /\ iteration < max_iterations
    /\ iteration' = iteration + 1
    /\ modelCalls' = modelCalls + 1
    /\ \E r \in Responses_model :
          /\ lastResponse' = r
          /\ IF r.stop_reason = "end_turn"
             THEN /\ LoopReturn(FirstText(r.content))
                  /\ dispatched' = <<>>
                  /\ UNCHANGED messages
             ELSE IF ToolBlocks(r.content) # <<>>
             THEN /\ dispatched' = Ids(ToolBlocks(r.content)) \o Ids(ToolBlocks(r.content))
                  /\ messages' = messages \o
                        << [role |-> "assistant", content |-> ToolBlocks(r.content)],
                           [role |-> "user", content |-> ToolResults(ToolBlocks(r.content))] >>
                  /\ UNCHANGED <<loopPc, loopResult>>
             ELSE /\ LoopReturn(FirstText(r.content))
                  /\ dispatched' = <<>>
                  /\ UNCHANGED messages

\* client.messages.create raised (timeout, transport or API error)
LoopCallRaises ==
    /\ loopPc = "call"
    /\ iteration < max_iterations
    /\ iteration' = iteration + 1
    /\ modelCalls' = modelCalls + 1
    /\ loopPc' = "raised"
    /\ UNCHANGED <<messages, dispatched, lastResponse, loopResult>>

\* a ceiling that returns the text of the last response
LoopCeiling_last_text ==
    /\ loopPc = "call"
    /\ ~(iteration < max_iterations)
    /\ LoopReturn(FirstText(lastResponse.content))
    /\ UNCHANGED <<iteration, messages, modelCalls, dispatched, lastResponse>>

\* the while test fails: "Max iterations reached", return ""
LoopCeiling ==
    /\ loopPc = "call"
    /\ ~(iteration < max_iterations)
    /\ LoopReturn("")
    /\ UNCHANGED <<iteration, messages, modelCalls, dispatched, lastResponse>>

\* the loop is not running
LoopIdle ==
    /\ loopPc = "idle"
    /\ iteration = 0
    /\ messages = <<>>
    /\ modelCalls = 0
    /\ dispatched = <<>>
    /\ lastResponse = NoResponse
    /\ loopResult = ""

-----------------------------------------------------------------------------
(* The drivers.  batch_eval.py: main parses the task list, filters it by   *)
(* --tasks and awaits run_task for each item; run_task builds and invokes  *)
(* the graph inside try/except Exception.  create_and_build.py: main       *)
(* builds and invokes the graph once, with no handler around it.           *)

\* parse_tasks: the sections with non-empty stripped content, as a dict
RECURSIVE parse_tasks(_)
parse_tasks(sections) ==
    IF sections = <<>> THEN <<>>
    ELSE LET n == Len(sections)
             parsed == parse_tasks(SubSeq(sections, 1, n - 1))
             task_id == sections[n][1]
             task_content == sections[n][2]
         IN  IF task_content # "" THEN DictSet(parsed, task_id, task_content) ELSE parsed

\* the --tasks filter: applied only when args.tasks is non-empty
selected_tasks(parsed, wanted) ==
    IF wanted # {} THEN SelectSeq(parsed, LAMBDA item : item[1] \in wanted) ELSE parsed

\* how one build_graph + graph.ainvoke can end
RunOutcomes == {"complete", "raises"}

\* batch main up to the loop: parse, filter, create the output directory, log
\* the config (get_config raises when the key is not set)
batch_main_start ==
    /\ driver = "batch"
    /\ driverPc = "start"
    /\ tasksDict' = selected_tasks(parse_tasks(taskFile), selection)
    /\ driverPc' = IF apiKey THEN "run" ELSE "halted"
    /\ UNCHANGED <<driver, taskFile, selection, attempts, logged>>

\* the next item of the loop
NextItem == tasksDict[Len(attempts) + 1]

\* run_task with the graph run outside any handler
run_task_uncaught ==
    /\ driver = "batch"
    /\ driverPc = "run"
    /\ Len(attempts) < Len(tasksDict)
    /\ \E outcome \in RunOutcomes :
          /\ attempts' = Append(attempts, [id |-> NextItem[1], content |-> NextItem[2],
                                           outcome |-> outcome])
          /\ driverPc' = IF outcome = "raises" THEN "halted" ELSE driverPc
    /\ UNCHANGED <<driver, taskFile, selection, tasksDict, logged>>

\* run_task: one graph run for the next item; an exception is caught and logged
run_task ==
    /\ driver = "batch"
    /\ driverPc = "run"
    /\ Len(attempts) < Len(tasksDict)
    /\ \E outcome \in RunOutcomes :
          /\ attempts' = Append(attempts, [id |-> NextItem[1], content |-> NextItem[2],
                                           outcome |-> outcome])
          /\ logged' = IF outcome = "raises" THEN Append(logged, NextItem[1]) ELSE logged
    /\ UNCHANGED <<driver, taskFile, selection, tasksDict, driverPc>>

\* the loop is exhausted: "Batch evaluation complete"
batch_main_end ==
    /\ driver = "batch"
    /\ driverPc = "run"
    /\ Len(attempts) = Len(tasksDict)
    /\ driverPc' = "done"
    /\ UNCHANGED <<driver, taskFile, selection, tasksDict, attempts, logged>>

\* create_and_build.py main: get_config raises when the key is not set; else
\* one graph run, and an exception leaves main
single_main ==
    /\ driver = "single"
    /\ driverPc = "start"
    /\ IF apiKey
       THEN \E outcome \in RunOutcomes :
               /\ attempts' = Append(attempts, [id |-> "design", content |-> "design",
                                                outcome |-> outcome])
               /\ driverPc' = IF outcome = "raises" THEN "halted" ELSE "done"
       ELSE driverPc' = "halted" /\ UNCHANGED attempts
    /\ UNCHANGED <<driver, taskFile, selection, tasksDict, logged>>

\* no driver runs
DriverIdle ==
    /\ driver = "none"
    /\ taskFile = <<>>
    /\ selection = {}
    /\ tasksDict = <<>>
    /\ driverPc = "idle"
    /\ attempts = <<>>
    /\ logged = <<>>

-----------------------------------------------------------------------------
(* src/agent/wiring_diagrams.py: parse_wiring_diagram_text.  A component,  *)
(* a connection and a pin mapping are the dicts of the source as records;  *)
(* pin_mappings is a dict keyed by the pin token.                          *)

\* the source file spells the ohm sign as the two characters U+00CE U+00A9 and
\* the box drawing bar as the three characters U+00E2 U+201D U+201A
OHM == <<"U+00CE", "U+00A9">>
BOXBAR == <<"U+00E2", "U+201D", "U+201A">>
BAR == "|"

RECURSIVE replace(_, _, _)
\* t.replace(old, new) for a non-empty old: the leftmost occurrence is replaced,
\* then the occurrences in what follows it
replace(t, old, new) ==
    LET at == {i \in 1..(Len(t) - Len(old) + 1) : SubSeq(t, i, i + Len(old) - 1) = old}
    IN  IF at = {} THEN t
        ELSE LET i == CHOOSE k \in at : \A m \in at : k <= m
             IN  SubSeq(t, 1, i - 1) \o new
                 \o replace(SubSeq(t, i + Len(old), Len(t)), old, new)

\* t.split(c) for a one-character c: the pieces between successive occurrences
split(t, c) ==
    LET cuts == <<0>> \o SelectSeq([i \in 1..Len(t) |-> i], LAMBDA i : t[i] = c)
                 \o <<Len(t) + 1>>
    IN  <<>> \o [k \in 1..(Len(cuts) - 1) |-> SubSeq(t, cuts[k] + 1, cuts[k + 1] - 1)]

EXTERNAL_LED == <<"E", "x", "t", "e", "r", "n", "a", "l", " ", "L", "E", "D">>
RESISTOR_100 == <<"1", "0", "0">> \o OHM \o <<" ", "R", "e", "s", "i", "s", "t", "o", "r">>
GND == <<"G", "N", "D">>
V3_3 == <<"3", ".", "3", "V">>
GPIO == <<"G", "P", "I", "O">>
GPIO21 == <<"G", "P", "I", "O", "2", "1">>
LED == <<"L", "E", "D">>

\* nothing seeded: no platform given, or the lookup raised
Unseeded == [components |-> <<>>, pin_mappings |-> <<>>, added |-> {}]

\* a dict after the assignments d[k] = v of assigned, in order: a key stands where
\* it was first assigned and holds what it was last assigned
dict_of(assigned) ==
    LET first == SelectSeq([i \in 1..Len(assigned) |-> i],
                           LAMBDA i : \A j \in 1..(i - 1) : assigned[j][1] # assigned[i][1])
        last(k) == CHOOSE i \in 1..Len(assigned) :
                       /\ assigned[i][1] = k
                       /\ \A j \in (i + 1)..Len(assigned) : assigned[j][1] # k
    IN  <<>> \o [n \in 1..Len(first) |-> assigned[last(assigned[first[n]][1])]]

\* the component appended for a gpio_mapping entry
seed_component(usage, gpio, platform_name) ==
    [ name |-> usage,
      type |-> IF startswith(gpio, GPIO) \/ Contains(usage, <<"B", "r", "e", "a", "d">>)
               THEN "pin" ELSE "hardware",
      description |-> gpio \o <<" ", "o", "n", " ">> \o platform_name ]

\* the pin_mappings assignments made for a gpio_mapping entry: none or one
seed_pin(usage, gpio, platform_name) ==
    LET pin_key == replace(gpio, <<SP>>, <<>>)
    IN  IF startswith(upper(gpio), GPIO)
        THEN << <<pin_key,
                  [ function |-> usage, type |-> "digital",
                    description |->
                        usage \o <<" ", "m", "a", "p", "p", "e", "d", " ", "t", "o", " ">>
                        \o pin_key \o <<" ", "o", "n", " ">> \o platform_name ]>> >>
        ELSE IF gpio \in {GND, V3_3, <<"V", "C", "C">>}
        THEN << <<gpio,
                  [ function |-> usage, type |-> "power",
                    description |->
                        usage \o <<" ", "p", "o", "w", "e", "r", " ", "r", "a", "i", "l", " ",
                                   "o", "n", " ">> \o platform_name ]>> >>
        ELSE <<>>

\* the seeding for a skillset: the board component, then, over the sorted
\* gpio_mapping items, every entry whose name is not in `added` (the board's name
\* and the names of the entries before it)
seed(skillset) ==
    LET items == sorted(skillset.gpio_mapping)
        name == skillset.platform_name
        kept == SelectSeq([i \in 1..Len(items) |-> i],
                          LAMBDA i : /\ items[i][1] # name
                                     /\ \A j \in 1..(i - 1) : items[j][1] # items[i][1])
    IN  [ components |->
              << [name |-> name, type |-> "hardware", description |-> skillset.description] >>
              \o [n \in 1..Len(kept) |-> seed_component(items[kept[n]][1], items[kept[n]][2], name)],
          pin_mappings |->
              LET pins == SelectSeq(kept, LAMBDA i : seed_pin(items[i][1], items[i][2], name) # <<>>)
              IN  dict_of(<<>> \o [n \in 1..Len(pins) |->
                                     seed_pin(items[pins[n]][1], items[pins[n]][2], name)[1]]),
          added |-> {name} \cup {items[kept[n]][1] : n \in 1..Len(kept)} ]

\* `if platform:` with the lookup inside try/except Exception
\* the seeding for the catalog's board, which every call for it repeats
SEED_ESP32_S3_BOX_3 == seed(ESP32_S3_BOX_3)

seeded(platform) ==
    IF ~platform.given \/ platform.name = <<>> THEN Unseeded
    ELSE LET found == get_skillset("agent", platform.name)
         IN  IF found.raises # "" THEN Unseeded
             ELSE IF found.skillset = ESP32_S3_BOX_3 THEN SEED_ESP32_S3_BOX_3
             ELSE seed(found.skillset)

\* known_components, in insertion order
known_components ==
    << [ name |-> <<"E", "S", "P", "3", "2", "-", "S", "3", "-", "B", "O", "X", "-", "3">>, type |-> "hardware",
         description |->
           <<"M", "a", "i", "n", " ", "d", "e", "v", "e", "l", "o", "p", "m", "e", "n", "t", " ",
           "b", "o", "a", "r", "d", " ", "w", "i", "t", "h", " ", "b", "r", "e", "a", "d", " ",
           "b", "r", "e", "a", "k", "o", "u", "t">> ],
       [ name |-> EXTERNAL_LED, type |-> "hardware",
         description |-> <<"R", "e", "d", " ", "L", "E", "D", " ", "f", "o", "r", " ", "b", "l",
                         "i", "n", "k", "i", "n", "g">> ],
       [ name |-> RESISTOR_100, type |-> "hardware",
         description |->
           <<"C", "u", "r", "r", "e", "n", "t", " ", "l", "i", "m", "i", "t", "i", "n", "g", " ",
           "r", "e", "s", "i", "s", "t", "o", "r", " ", "f", "o", "r", " ", "L", "E", "D">> ],
       [ name |-> <<"B", "r", "e", "a", "d", "b", "o", "a", "r", "d">>, type |-> "hardware",
         description |->
           <<"B", "r", "e", "a", "d", "b", "o", "a", "r", "d", " ", "f", "o", "r", " ", "c", "i",
           "r", "c", "u", "i", "t", " ", "c", "o", "n", "n", "e", "c", "t", "i", "o", "n", "s">> ],
       [ name |-> GND, type |-> "power",
         description |-> <<"G", "r", "o", "u", "n", "d", " ", "c", "o", "n", "n", "e", "c", "t",
                         "i", "o", "n">> ],
       [ name |-> V3_3, type |-> "power",
         description |-> <<"3", ".", "3", "V", " ", "p", "o", "w", "e", "r", " ", "s", "u", "p",
                         "p", "l", "y">> ],
       [ name |-> GPIO21, type |-> "pin",
         description |-> <<"G", "P", "I", "O", " ", "p", "i", "n", " ", "2", "1", " ", "f", "o",
                         "r", " ", "L", "E", "D", " ", "c", "o", "n", "t", "r", "o", "l">> ] >>

Connection(from, to, pin, description) ==
    [from |-> from, to |-> to, pin |-> pin, type |-> "electrical", description |-> description]

\* a row of the connection table
table_row(line) ==
    LET clean_line == strip(replace(line, BOXBAR, <<BAR>>))
        cells == split(clean_line, BAR)
        parts == [i \in 1..Len(cells) |-> strip(cells[i])]
    IN  IF ~(Contains(clean_line, <<BAR>>) /\ Len(cells) >= 2) THEN <<>>
        ELSE LET component_pin == parts[1]
                 esp32_pin == parts[2]
             IN  IF ~( /\ component_pin # <<>>
                       /\ esp32_pin # <<>>
                       /\ ~ \E skip \in { <<"c", "o", "m", "p", "o", "n", "e", "n", "t">>, <<"-", "-", "-">>,
                                          <<"p", "i", "n", " ", "c", "o", "n", "n", "e", "c", "t",
                                        "i", "o", "n">>, <<>> } :
                              Contains(lower(component_pin), skip) )
                 THEN <<>>
                 ELSE IF Contains(component_pin, EXTERNAL_LED) \/ component_pin = <<>>
                 THEN IF Contains(esp32_pin, <<"(", "+", ")", " ", "A", "n", "o", "d", "e">>)
                      THEN << Connection(EXTERNAL_LED, RESISTOR_100, <<"A", "n", "o", "d", "e", " ", "(", "+", ")">>,
                                <<"L", "E", "D", " ", "a", "n", "o", "d", "e", " ", "c", "o",
                                "n", "n", "e", "c", "t", "e", "d", " ", "t", "o", " ", "1", "0",
                                "0", "U+00CE", "U+00A9", " ", "r", "e", "s", "i", "s", "t", "o", "r">>) >>
                      ELSE IF Contains(esp32_pin, <<"(", "-", ")", " ", "C", "a", "t", "h", "o", "d",
                                        "e">>)
                      THEN << Connection(EXTERNAL_LED, GND, <<"C", "a", "t", "h", "o", "d", "e", " ", "(", "-",
                                        ")">>,
                                <<"L", "E", "D", " ", "c", "a", "t", "h", "o", "d", "e", " ",
                                "c", "o", "n", "n", "e", "c", "t", "e", "d", " ", "t", "o", " ",
                                "G", "N", "D">>) >>
                      ELSE <<>>
                 ELSE IF Contains(component_pin, <<"R", "e", "s", "i", "s", "t", "o", "r">>)
                 THEN IF Contains(esp32_pin, <<"T", "e", "r", "m", "i", "n", "a", "l", " ", "1">>)
                      THEN << Connection(RESISTOR_100, GPIO21, <<"T", "e", "r", "m", "i", "n", "a", "l", " ", "1">>,
                                <<"R", "e", "s", "i", "s", "t", "o", "r", " ", "t", "e", "r",
                                "m", "i", "n", "a", "l", " ", "1", " ", "c", "o", "n", "n", "e",
                                "c", "t", "e", "d", " ", "t", "o", " ", "G", "P", "I", "O", "2",
                                "1">>) >>
                      ELSE IF Contains(esp32_pin, <<"T", "e", "r", "m", "i", "n", "a", "l", " ", "2">>)
                      THEN << Connection(RESISTOR_100, EXTERNAL_LED, <<"T", "e", "r", "m", "i", "n", "a", "l", " ", "2">>,
                                <<"R", "e", "s", "i", "s", "t", "o", "r", " ", "t", "e", "r",
                                "m", "i", "n", "a", "l", " ", "2", " ", "c", "o", "n", "n", "e",
                                "c", "t", "e", "d", " ", "t", "o", " ", "L", "E", "D", " ", "a",
                                "n", "o", "d", "e">>) >>
                      ELSE <<>>
                 ELSE <<>>

\* a 'connected to' statement
statement(line_lower) ==
    IF Contains(line_lower, <<"l", "e", "d", " ", "c", "a", "t", "h", "o", "d", "e">>) /\ Contains(line_lower, <<"g", "p", "i", "o", " ", "2", "1">>)
    THEN << Connection(EXTERNAL_LED, GPIO21, <<"C", "a", "t", "h", "o", "d", "e", " ", "(", "-",
                                        ")">>,
              <<"L", "E", "D", " ", "c", "a", "t", "h", "o", "d", "e", " ", "c", "o", "n", "n",
              "e", "c", "t", "e", "d", " ", "t", "o", " ", "G", "P", "I", "O", "2", "1">>) >>
    ELSE IF Contains(line_lower, <<"l", "e", "d", " ", "a", "n", "o", "d", "e">>) /\ Contains(line_lower, <<"r", "e", "s", "i", "s", "t", "o", "r">>)
    THEN << Connection(EXTERNAL_LED, RESISTOR_100, <<"A", "n", "o", "d", "e", " ", "(", "+", ")">>,
              <<"L", "E", "D", " ", "a", "n", "o", "d", "e", " ", "c", "o", "n", "n", "e", "c",
              "t", "e", "d", " ", "t", "o", " ", "1", "0", "0", "U+00CE", "U+00A9", " ", "r", "e", "s", "i",
              "s", "t", "o", "r">>) >>
    ELSE IF /\ Contains(line_lower, <<"r", "e", "s", "i", "s", "t", "o", "r">>)
            /\ (Contains(line_lower, <<"g", "p", "i", "o", "2", "1">>) \/ Contains(line_lower, <<"g", "p", "i", "o", " ", "2", "1">>))
    THEN << Connection(RESISTOR_100, GPIO21, <<"O", "n", "e", " ", "e", "n", "d">>,
              <<"R", "e", "s", "i", "s", "t", "o", "r", " ", "c", "o", "n", "n", "e", "c", "t",
              "e", "d", " ", "t", "o", " ", "G", "P", "I", "O", "2", "1">>) >>
    ELSE <<>>

\* one pass of the loop over the lines
scan_line(acc, raw) ==
    LET line == strip(raw)
        low == lower(line)
    IN  IF \/ /\ Contains(low, <<"c", "o", "m", "p", "o", "n", "e", "n", "t">>)
              /\ (Contains(low, <<"p", "i", "n">>) \/ Contains(low, <<"w", "i", "r", "e">>))
           \/ Contains(low, <<"w", "i", "r", "i", "n", "g", " ", "c", "o", "n", "n", "e", "c",
                            "t", "i", "o", "n", " ", "t", "a", "b", "l", "e">>)
        THEN [acc EXCEPT !.in_connection_table = TRUE]
        ELSE IF acc.in_connection_table /\ (Contains(line, BOXBAR) \/ Contains(line, <<BAR>>))
        THEN [acc EXCEPT !.connections = @ \o table_row(line)]
        ELSE IF Contains(low, <<"c", "o", "n", "n", "e", "c", "t", "e", "d", " ", "t", "o">>)
        THEN [acc EXCEPT !.connections = @ \o statement(low)]
        ELSE acc

RECURSIVE scan_lines(_, _)
scan_lines(acc, lines) ==
    IF lines = <<>> THEN acc ELSE scan_lines(scan_line(acc, Head(lines)), Tail(lines))

\* the fallback taken on the LED keyword alone
is_led_project_led_only(diagram_text) == Contains(diagram_text, LED)

\* the test of the LED blink project
is_led_project(diagram_text) ==
    \/ Contains(diagram_text, LED) /\ Contains(diagram_text, GPIO)
    \/ Contains(diagram_text, EXTERNAL_LED) /\ Contains(diagram_text, GPIO21)

\* the three connections of the LED blink project
led_connections ==
    << Connection(EXTERNAL_LED, RESISTOR_100, <<"A", "n", "o", "d", "e", " ", "(", "+", ")">>,
         <<"L", "E", "D", " ", "a", "n", "o", "d", "e", " ", "c", "o", "n", "n", "e", "c", "t",
         "e", "d", " ", "t", "o", " ", "c", "u", "r", "r", "e", "n", "t", " ", "l", "i", "m",
         "i", "t", "i", "n", "g", " ", "r", "e", "s", "i", "s", "t", "o", "r">>),
       Connection(EXTERNAL_LED, GND, <<"C", "a", "t", "h", "o", "d", "e", " ", "(", "-", ")">>,
         <<"L", "E", "D", " ", "c", "a", "t", "h", "o", "d", "e", " ", "c", "o", "n", "n", "e",
         "c", "t", "e", "d", " ", "t", "o", " ", "g", "r", "o", "u", "n", "d">>),
       Connection(RESISTOR_100, GPIO21, <<"T", "e", "r", "m", "i", "n", "a", "l", " ", "1">>,
         <<"R", "e", "s", "i", "s", "t", "o", "r", " ", "c", "o", "n", "n", "e", "c", "t", "e",
         "d", " ", "t", "o", " ", "G", "P", "I", "O", "2", "1", " ", "o", "u", "t", "p", "u",
         "t", " ", "p", "i", "n">>) >>

\* the pin mapping of the LED blink project
LED_CONTROL ==
    [ function |-> <<"L", "E", "D", " ", "C", "o", "n", "t", "r", "o", "l">>, type |-> "digital_output",
      description |->
        <<"G", "P", "I", "O", " ", "p", "i", "n", " ", "2", "1", " ", "c", "o", "n", "f", "i",
        "g", "u", "r", "e", "d", " ", "a", "s", " ", "d", "i", "g", "i", "t", "a", "l", " ", "o",
        "u", "t", "p", "u", "t", " ", "f", "o", "r", " ", "L", "E", "D", " ", "b", "l", "i", "n",
        "k", "i", "n", "g">> ]

\* pin_mappings.setdefault("GPIO21", ...): an entry already there is kept
led_pin_mappings_setdefault(pin_mappings) ==
    IF KeyIndex(pin_mappings, GPIO21) # 0 THEN pin_mappings
    ELSE DictSet(pin_mappings, GPIO21, LED_CONTROL)

\* pin_mappings["GPIO21"] = {...}
led_pin_mappings(pin_mappings) == DictSet(pin_mappings, GPIO21, LED_CONTROL)

\* parse_wiring_diagram_text(diagram_text, platform)
parse_wiring_diagram_text(diagram_text, platform) ==
    LET seeds == seeded(platform)
        scanned_lines == scan_lines([connections |-> <<>>, in_connection_table |-> FALSE],
                                    split(diagram_text, NL))
        led == is_led_project(diagram_text)
    IN  [ components |-> seeds.components \o known_components,
          connections |-> scanned_lines.connections \o (IF led THEN led_connections ELSE <<>>),
          pin_mappings |-> IF led THEN led_pin_mappings(seeds.pin_mappings)
                           ELSE seeds.pin_mappings ]

-----------------------------------------------------------------------------
(* src/agent_arduino/skill_registry.py: SkillRegistry.read_skill_file, and *)
(* the tool handler of IoTAgent that calls it.  A path is the sequence of  *)
(* its components from the filesystem root, as pathlib keeps them: '.'     *)
(* components are dropped, '..' components are kept.                       *)

DOTDOT == <<".", ".">>
DOT_MD == <<".", "m", "d">>
SKILL_MD == <<"S", "K", "I", "L", "L", ".", "m", "d">>
EXAMPLES_MD == <<"E", "X", "A", "M", "P", "L", "E", "S", ".", "m", "d">>
REFERENCE_MD == <<"R", "E", "F", "E", "R", "E", "N", "C", "E", ".", "m", "d">>
NOTES_TXT == <<"n", "o", "t", "e", "s", ".", "t", "x", "t">>
REFS_MD == <<"r", "e", "f", "s", ".", "m", "d">>
KEYS_MD == <<"K", "E", "Y", "S", ".", "m", "d">>
MISSING_MD == <<"m", "i", "s", "s", "i", "n", "g", ".", "m", "d">>
ARDUINO_SETUP == <<"a", "r", "d", "u", "i", "n", "o", "_", "s", "e", "t", "u", "p">>
DHT11_SENSOR == <<"d", "h", "t", "1", "1", "-", "s", "e", "n", "s", "o", "r">>
MPU6050_IMU == <<"m", "p", "u", "6", "0", "5", "0", "-", "i", "m", "u">>

\* PROJECT_ROOT and SKILLS_DIR
PROJECT_ROOT == << <<"p", "r", "o", "j", "e", "c", "t">> >>
SKILLS_DIR == PROJECT_ROOT \o << <<"s", "k", "i", "l", "l", "s">> >>

\* skill_names of _discover_skills
skill_names == <<ARDUINO_SETUP, DHT11_SENSOR>>

\* the files on disk, each with its content, and the directories
Disk ==
    << <<SKILLS_DIR \o <<ARDUINO_SETUP, SKILL_MD>>, "arduino_setup/SKILL.md">>,
       <<SKILLS_DIR \o <<ARDUINO_SETUP, EXAMPLES_MD>>, "arduino_setup/EXAMPLES.md">>,
       <<SKILLS_DIR \o <<ARDUINO_SETUP, NOTES_TXT>>, "arduino_setup/notes.txt">>,
       <<SKILLS_DIR \o <<DHT11_SENSOR, SKILL_MD>>, "dht11-sensor/SKILL.md">>,
       <<SKILLS_DIR \o <<DHT11_SENSOR, REFERENCE_MD>>, "dht11-sensor/REFERENCE.md">>,
       <<PROJECT_ROOT \o <<KEYS_MD>>, "KEYS.md">> >>
Directories ==
    { <<>>, PROJECT_ROOT, SKILLS_DIR, SKILLS_DIR \o <<ARDUINO_SETUP>>,
      SKILLS_DIR \o <<DHT11_SENSOR>>, SKILLS_DIR \o <<ARDUINO_SETUP, REFS_MD>> }

IsFile(path) == KeyIndex(Disk, path) # 0
IsDirectory(path) == path \in Directories

NotFound == [found |-> FALSE, path |-> <<>>]
Found(path) == [found |-> TRUE, path |-> path]

RECURSIVE walk(_, _)
\* where the operating system gets to from directory cur along the components
\* parts: '..' is the parent (the root is its own parent), a name is an entry
\* of the directory; nothing is found when a component does not exist or
\* something that is not a directory is walked through
walk(cur, parts) ==
    IF parts = <<>> THEN Found(cur)
    ELSE IF ~IsDirectory(cur) THEN NotFound
    ELSE IF Head(parts) = DOTDOT
    THEN walk(IF cur = <<>> THEN cur ELSE SubSeq(cur, 1, Len(cur) - 1), Tail(parts))
    ELSE IF IsFile(Append(cur, Head(parts))) \/ IsDirectory(Append(cur, Head(parts)))
    THEN walk(Append(cur, Head(parts)), Tail(parts))
    ELSE NotFound

\* the file or directory a path names
resolve(path) == walk(<<>>, path)

\* path.exists()
exists(path) == resolve(path).found

\* skill_dir / filename: an absolute filename replaces skill_dir
joinpath(skill_dir, filename) ==
    IF filename.absolute THEN filename.parts ELSE skill_dir \o filename.parts

\* path.suffix: the final component from its last dot, unless that dot is its
\* first or its last character
suffix(path) ==
    IF path = <<>> THEN <<>>
    ELSE LET name == path[Len(path)]
             i == rfind(name, ".")
         IN  IF 1 < i /\ i < Len(name) THEN SubSeq(name, i, Len(name)) ELSE <<>>

\* self.skill_dirs after _discover_skills: the listed skills whose directory
\* holds a SKILL.md
skill_dirs ==
    { skill_names[i] : i \in { k \in 1..Len(skill_names) :
                                 IsFile(SKILLS_DIR \o <<skill_names[k], SKILL_MD>>) } }

\* what read_skill_file returns: the content read, or None
None == [none |-> TRUE, content |-> ""]
Content(text) == [none |-> FALSE, content |-> text]

\* open(file_path).read(), an exception giving None
read_or_none(file_path) ==
    IF resolve(file_path).found /\ IsFile(resolve(file_path).path)
    THEN Content(Disk[KeyIndex(Disk, resolve(file_path).path)][2])
    ELSE None

\* SkillRegistry.read_skill_file(skill_name, filename)
read_skill_file(skill_name, filename) ==
    IF skill_name \notin skill_dirs THEN None
    ELSE LET skill_dir == SKILLS_DIR \o <<skill_name>>
             file_path == joinpath(skill_dir, filename)
         IN  IF ~exists(file_path) \/ suffix(file_path) # DOT_MD THEN None
             ELSE read_or_none(file_path)

\* IoTAgent._handle_tool_call for the tool read_skill_file: the content when
\* there is some, else the error text
handle_read_skill_file(skill_name, filename) ==
    LET content == read_skill_file(skill_name, filename)
    IN  IF ~content.none /\ content.content # "" THEN content.content
        ELSE "Error: File not found"

-----------------------------------------------------------------------------
(* src/agent_arduino/skills/lvgl_font_config_skill.py: the font skill of   *)
(* the Arduino package.  Files are token sequences as in the font          *)
(* reconciler: a token is a literal the code handles whole, a digit or NL. *)

LV_KEY == "LV_FONT_MONTSERRAT_"
ENDIF == "#endif"
INDENT == "    "
BUILD_FLAGS == "build_flags"
LVGL_FONT_COMMENT == "// LVGL Font Configuration"

\* self.font_sizes
font_sizes == <<20, 22, 24, 26, 28, 30, 32, 34, 36>>

\* ArduinoLVGLFontConfigSkill.extract_fonts_from_code: the set of captured
\* tokens over the sketch files of the project
skill_extract_fonts_from_code(file) == IF file.exists THEN fonts_found(file.data) ELSE {}

\* generate_build_flags(fonts_used)
generate_build_flags(fonts_used) ==
    <<>> \o [i \in 1..Len(font_sizes) |->
               <<"-D", LV_KEY>> \o str(font_sizes[i])
               \o <<IF str(font_sizes[i]) \in fonts_used THEN "=1" ELSE "=0">>]

\* the define line of one size
DefineLine(size, value) == <<"#define ", LV_KEY>> \o str(size) \o <<value>>

\* generate_lv_conf_defines(fonts_used)
generate_lv_conf_defines(fonts_used) ==
    <<>> \o [i \in 1..Len(font_sizes) |->
               DefineLine(font_sizes[i],
                          IF str(font_sizes[i]) \in fonts_used THEN " 1" ELSE " 0")]

\* list.insert(i, x), i counted from 0
insert(list, i, x) == SubSeq(list, 1, i) \o <<x>> \o SubSeq(list, i + 1, Len(list))

RECURSIVE insert_each(_, _, _)
\* for x in items: list.insert(i, x); i += 1
insert_each(list, i, items) ==
    IF items = <<>> THEN list
    ELSE insert_each(insert(list, i, Head(items)), i + 1, Tail(items))

RECURSIVE insert_all_at(_, _, _)
\* for x in items: list.insert(i, x)
insert_all_at(list, i, items) ==
    IF items = <<>> THEN list
    ELSE insert_all_at(insert(list, i, Head(items)), i, Tail(items))

\* the index (from 0) of the first line that satisfies Test, -1 when none does
FirstIndex(lines, Test(_)) ==
    IF \E i \in 1..Len(lines) : Test(lines[i])
    THEN (CHOOSE i \in 1..Len(lines) :
              Test(lines[i]) /\ \A j \in 1..(i - 1) : ~Test(lines[j])) - 1
    ELSE -1

\* line.strip().startswith('build_flags')
starts_build_flags(line) ==
    LET words == SelectSeq(line, LAMBDA tok : tok \notin {INDENT, SP, NL})
    IN  words # <<>> /\ words[1] = BUILD_FLAGS

\* update_platformio_ini(fonts_used): what it returns and the file it leaves
update_platformio_ini(file, fonts_used) ==
    IF ~file.exists THEN [returned |-> FALSE, file |-> file]
    ELSE LET lines == readlines(file.data)
             font_flags == generate_build_flags(fonts_used)
             flag_lines == <<>> \o [i \in 1..Len(font_flags) |->
                                      <<INDENT>> \o font_flags[i] \o <<NL>>]
             kept_lines == SelectSeq(lines, LAMBDA line : ~HasToken(line, LV_KEY))
             build_flags_idx == FirstIndex(kept_lines, starts_build_flags)
             written == IF build_flags_idx >= 0
                        THEN insert_each(kept_lines, build_flags_idx + 1, flag_lines)
                        ELSE kept_lines \o <<<<NL, BUILD_FLAGS, " = ", NL>>>> \o flag_lines
         IN  [returned |-> TRUE, file |-> [exists |-> TRUE, data |-> Flatten(written)]]

\* the first of lv_conf_paths that exists, 0 when none does
lv_conf_path(lv_files) ==
    IF \E k \in 1..Len(lv_files) : lv_files[k].exists
    THEN CHOOSE k \in 1..Len(lv_files) :
             lv_files[k].exists /\ \A j \in 1..(k - 1) : ~lv_files[j].exists
    ELSE 0

\* the lv_conf.h written when none exists
new_lv_conf_h(fonts_used) ==
    <<"#ifndef LV_CONF_H", NL, "#define LV_CONF_H", NL, NL, LVGL_FONT_COMMENT, NL>>
    \o Flatten([i \in 1..Len(font_sizes) |-> generate_lv_conf_defines(fonts_used)[i] \o <<NL>>])
    \o <<NL, ENDIF, " // LV_CONF_H", NL>>

\* the content written over an existing lv_conf.h
updated_lv_conf_h(content, fonts_used) ==
    LET lines == split(content, NL)
        kept_lines == SelectSeq(lines, LAMBDA line : ~HasToken(line, LV_KEY))
        font_defines == generate_lv_conf_defines(fonts_used)
        endif_idx == FirstIndex(kept_lines, LAMBDA line : HasToken(line, ENDIF))
        written == IF endif_idx >= 0
                   THEN insert_all_at(insert(kept_lines, endif_idx, <<NL, LVGL_FONT_COMMENT>>),
                                      endif_idx + 1, font_defines)
                   ELSE kept_lines
    IN  join_lines(written)

\* update_lv_conf_h(fonts_used): the files it leaves; it returns True always
update_lv_conf_h(lv_files, fonts_used) ==
    LET k == lv_conf_path(lv_files)
    IN  IF k = 0
        THEN [lv_files EXCEPT ![1] = [exists |-> TRUE, data |-> new_lv_conf_h(fonts_used)]]
        ELSE [lv_files EXCEPT ![k] = [exists |-> TRUE,
                                      data |-> updated_lv_conf_h(lv_files[k].data, fonts_used)]]

\* execute(): what it returns and the files it leaves; fonts_detected is
\* sorted(fonts_used, key=int), one of SortedByInt(fonts_used)
execute(sketch_file, lv_files, ini_file, fonts_detected) ==
    LET fonts_used == skill_extract_fonts_from_code(sketch_file)
        platformio == update_platformio_ini(ini_file, fonts_used)
    IN  IF fonts_used = {}
        THEN [result |-> [success |-> FALSE, fonts_detected |-> <<>>],
              lv_files |-> lv_files, ini_file |-> ini_file]
        ELSE [result |-> [success |-> TRUE, fonts_detected |-> fonts_detected],
              lv_files |-> update_lv_conf_h(lv_files, fonts_used),
              ini_file |-> platformio.file]

-----------------------------------------------------------------------------
(* src/agent_arduino/agent.py: ArduinoAgent.  ArduinoState is the dataclass *)
(* of src/agent/state.py; of its fields the model keeps libraries (a set,   *)
(* the code stores list(set(...))) and lvgl_fonts.  build_flags and         *)
(* compile_definitions are never assigned and stay empty; partition_scheme  *)
(* and flash_size keep their defaults.                                      *)

INCLUDE == "#include"
QUOTE == "\""
LVGL == "lvgl"

\* the first position from i on whose token satisfies Test, 0 when none does
FirstFrom(content, i, Test(_)) ==
    IF \E j \in i..Len(content) : Test(content[j])
    THEN CHOOSE j \in i..Len(content) :
             Test(content[j]) /\ \A m \in i..(j - 1) : ~Test(content[m])
    ELSE 0

\* where the match of #include\s*[<"]([^>"]+)[>"] that starts at i ends, 0 when
\* there is no match at i
include_end(content, i) ==
    LET open == FirstFrom(content, i + 1, LAMBDA tok : tok \notin {SP, NL})
        close == FirstFrom(content, open + 1, LAMBDA tok : tok \in {">", QUOTE})
    IN  IF /\ content[i] = INCLUDE
           /\ open # 0
           /\ content[open] \in {"<", QUOTE}
           /\ close > open + 1
        THEN close
        ELSE 0

RECURSIVE include_findall(_, _)
\* include_pattern.findall(content) from position i: the captured names
include_findall(content, i) ==
    IF i > Len(content) THEN <<>>
    ELSE IF include_end(content, i) # 0
    THEN <<SubSeq(content, FirstFrom(content, i + 1, LAMBDA tok : tok \notin {SP, NL}) + 1,
                  include_end(content, i) - 1)>>
         \o include_findall(content, include_end(content, i) + 1)
    ELSE include_findall(content, i + 1)

\* library_mapping
library_mapping ==
    << <<"WiFi.h", "WiFi">>, <<"Wire.h", "Wire">>, <<"SPI.h", "SPI">>, <<"lvgl.h", LVGL>>,
       <<"TFT_eSPI.h", "TFT_eSPI">>, <<"Adafruit_GFX.h", "Adafruit GFX Library">>,
       <<"Adafruit_ILI9341.h", "Adafruit ILI9341">> >>

\* the required_libraries of a sketch, as a set
required_libraries(content) ==
    { library_mapping[k][2] :
        k \in { k \in 1..Len(library_mapping) :
                  \E i \in 1..Len(include_findall(content, 1)) :
                      include_findall(content, 1)[i] = <<library_mapping[k][1]>> } }

\* ArduinoState() after __init__: the includes the sketches of the model hold
\* all end in '.h' and hold no '/', so _extract_libraries keeps none
ArduinoState == [libraries |-> {}, lvgl_fonts |-> <<>>]

\* reconcile_libraries(): what it returns, the state and the files it leaves
reconcile_libraries(st, sketch_file, lv_files, ini_file, fonts_detected) ==
    IF ~sketch_file.exists
    THEN [result |-> [success |-> FALSE, libraries |-> {}, lvgl_fonts |-> <<>>],
          state |-> st, skill |-> [success |-> FALSE, fonts_detected |-> <<>>],
          lv_files |-> lv_files, ini_file |-> ini_file]
    ELSE LET required == required_libraries(sketch_file.data)
             ran == execute(sketch_file, lv_files, ini_file, fonts_detected)
             after == IF LVGL \in required
                      THEN [libraries |-> required, lvgl_fonts |-> ran.result.fonts_detected]
                      ELSE [libraries |-> required, lvgl_fonts |-> st.lvgl_fonts]
         IN  [result |-> [success |-> TRUE, libraries |-> after.libraries,
                          lvgl_fonts |-> after.lvgl_fonts],
              state |-> after,
              skill |-> IF LVGL \in required THEN ran.result
                        ELSE [success |-> FALSE, fonts_detected |-> <<>>],
              lv_files |-> IF LVGL \in required THEN ran.lv_files ELSE lv_files,
              ini_file |-> IF LVGL \in required THEN ran.ini_file ELSE ini_file]

\* generate_platformio_ini(): the lines it joins, for libs an order of the list
\* state.libraries
generate_platformio_ini(st, libs) ==
    <<<<"[env:esp32s3]">>, <<"platform = espressif32">>, <<"board = esp32-s3-devkitc-1">>,
      <<"framework = arduino">>, <<>>>>
    \o (IF st.libraries # {}
        THEN <<<<"lib_deps = ">>>> \o [i \in 1..Len(libs) |-> <<INDENT, libs[i]>>] \o <<<<>>>>
        ELSE <<>>)
    \o (IF st.lvgl_fonts # <<>>
        THEN <<<<INDENT, "; LVGL Fonts">>>>
             \o [i \in 1..Len(st.lvgl_fonts) |->
                   <<INDENT, "-D", LV_KEY>> \o st.lvgl_fonts[i] \o <<"=1">>]
             \o <<<<>>>>
        ELSE <<>>)
    \o <<<<"board_build.partitions = ", "default", ".csv">>,
         <<"board_build.flash_size = ", "4MB">>>>

-----------------------------------------------------------------------------
(* Bounds and inputs of the font reconciler.                               *)

MaxSdkChunks == 3
MaxSrcChunks == 3
MaxRuns == 2

Absent == [exists |-> FALSE, data |-> <<>>]

\* pieces an existing sdkconfig is made of
SdkChunks ==
    { <<"FOO=1">>, <<"BAR=2">>, <<NL>>,
      <<KEY, "2", "0", "=y">>,
      <<"# ", KEY, "2", "2", " is not set">> }

SdkInputs ==
    {Absent} \cup
    {[exists |-> TRUE, data |-> Flatten(cs)] : cs \in SeqsUpTo(SdkChunks, MaxSdkChunks)}

\* token lists handed to update_sdkconfig directly
FontLists ==
    { <<>>, <<<<"2", "0">>>>, <<<<"1", "2">>, <<"2", "4">>>>, <<<<"2", "4">>, <<"3", "2">>>> }

\* pieces a source file is made of
SrcChunks ==
    { <<PFX, "2", "4">>, <<PFX, "3", "2">>, <<PFX, "2", "0">>, <<PFX, "1", "2">>,
      <<"0">>, <<PFX>>, <<";">> }

SourceTexts == {Flatten(cs) : cs \in SeqsUpTo(SrcChunks, MaxSrcChunks)}

\* sdkconfig files the end-to-end runs start from
SdkStarts ==
    { Absent,
      [exists |-> TRUE, data |-> <<"FOO=1", NL>>],
      [exists |-> TRUE, data |-> <<"FOO=1">>],
      [exists |-> TRUE, data |-> <<"FOO=1", NL>> \o EnabledLine(24) \o DisabledLine(20)] }

NoPrint == [kind |-> "none", fonts |-> <<>>]

NotCleaned == [raised |-> FALSE, code |-> <<>>]

NoLookup == [raises |-> "", skillset |-> [platform_name |-> <<>>]]

NotParsed == [components |-> <<>>, connections |-> <<>>, pin_mappings |-> <<>>]

\* no Arduino project in this specification
ArdIdle ==
    /\ sketch = Absent
    /\ lvFiles = <<Absent, Absent, Absent>>
    /\ iniFile = Absent
    /\ lvBefore = <<>>
    /\ lvFonts = <<>>
    /\ lvResult = [success |-> FALSE, fonts_detected |-> <<>>]
    /\ lvCalls = 0
    /\ lvOp = "none"
    /\ agentState = [libraries |-> {}, lvgl_fonts |-> <<>>]
    /\ agentBefore = [libraries |-> {}, lvgl_fonts |-> <<>>]
    /\ reconciled = [success |-> FALSE, libraries |-> {}, lvgl_fonts |-> <<>>]

\* no tool call in this specification
SkillIdle ==
    /\ skillName = <<>>
    /\ fileName = [absolute |-> FALSE, parts |-> <<>>]
    /\ fileResult = None
    /\ toolReply = ""
    /\ skillPc = "idle"

\* no lookup and no parse in this specification
WiringIdle ==
    /\ skPkg = "agent"
    /\ platformArg = [given |-> FALSE, name |-> <<>>]
    /\ diagramText = <<>>
    /\ lookup = NoLookup
    /\ parsedData = NotParsed
    /\ wiringPc = "idle"

\* no pipeline runs in this specification
GraphIdle ==
    /\ pipeline = "agent"
    /\ statePlatform = <<>>
    /\ wiringOn = FALSE
    /\ viaDriver = FALSE
    /\ designFile = [exists |-> FALSE, text |-> <<>>]
    /\ designPath = DESIGN_TXT
    /\ cwdDesign = [exists |-> FALSE, text |-> <<>>]
    /\ agentTask = NoTask
    /\ raised = ""
    /\ tasks = [n \in {} |-> "pending"]
    /\ writes = NoWrites
    /\ state = EmptyState("agent")
    /\ runStatus = "idle"
    /\ executed = [n \in AllNodes |-> 0]
    /\ completed = [n \in AllNodes |-> 0]
    /\ assemblies = <<>>
    /\ files = NoFiles
    /\ wiringSave = NotSaved

\* the code-cleaning step is not part of this specification
CleanIdle ==
    /\ variant = "agent"
    /\ response = <<>>
    /\ cleaned = NotCleaned
    /\ cleanPc = "idle"

-----------------------------------------------------------------------------
(* Bounds and inputs of the code-cleaning step.                            *)

MaxBodyLines == 3

\* how a response may begin: no fence, a fence alone, a fence with a language
\* tag, and a tagged fence that is not followed by a line break
Openers ==
    { <<>>,
      FENCE \o <<NL>>,
      FENCE_C \o <<NL>>,
      FENCE_CPP \o <<NL>>,
      FENCE_CXX \o <<NL>>,
      FENCE_ARDUINO \o <<NL>>,
      FENCE \o <<"i", "n", "o", NL>>,
      FENCE_CPP \o <<SP>> }

\* how a response may end: nothing more, or a closing fence on its own line
Closers == { <<>>, <<NL>> \o FENCE }

\* the lines a response body is made of
BodyLines ==
    { <<"x">>,
      <<BRACE>>,
      <<"/", "/", "c">>,
      <<"*", "*", "W", "i", "r", "i", "n", "g", " ", "D", "i", "a", "g", "r", "a", "m", "*", "*">>,
      <<"*", "*", "C", "o", "n", "n", "e", "c", "t", "i", "o", "n", "s">>,
      <<"#", " ", "W", "i", "r", "i", "n", "g">>,
      <<"#", "#", " ", "w", "i", "r", "i", "n", "g">> }

Responses ==
    {op \o join_lines(body) \o cl :
        op \in Openers, body \in SeqsUpTo(BodyLines, MaxBodyLines), cl \in Closers}

-----------------------------------------------------------------------------
(* Specification SpecSdk: update_sdkconfig called repeatedly on one file.  *)

InitSdk ==
    /\ ArdIdle
    /\ SkillIdle
    /\ WiringIdle
    /\ apiKey = TRUE
    /\ CleanIdle
    /\ GraphIdle
    /\ LoopIdle
    /\ DriverIdle
    /\ source = <<>>
    /\ sdkconfig \in SdkInputs
    /\ printed = NoPrint
    /\ sdkInitial = sdkconfig
    /\ sdkBefore = sdkconfig
    /\ fontsLast = <<>>
    /\ fontsBefore = <<>>
    /\ runs = 0

UpdateSdkconfig ==
    /\ runs < MaxRuns
    /\ \E fonts_used \in FontLists : update_sdkconfig(fonts_used)
    /\ UNCHANGED <<source, sdkInitial, notSdk>>

NextSdk == UpdateSdkconfig

SpecSdk == InitSdk /\ [][NextSdk]_vars

-----------------------------------------------------------------------------
(* Specification SpecFonts: sources scanned and the file reconciled.       *)

InitFonts ==
    /\ ArdIdle
    /\ SkillIdle
    /\ WiringIdle
    /\ apiKey = TRUE
    /\ CleanIdle
    /\ GraphIdle
    /\ LoopIdle
    /\ DriverIdle
    /\ source \in SourceTexts
    /\ sdkconfig \in SdkStarts
    /\ printed = NoPrint
    /\ sdkInitial = sdkconfig
    /\ sdkBefore = sdkconfig
    /\ fontsLast = <<>>
    /\ fontsBefore = <<>>
    /\ runs = 0

\* update_sdkconfig(path, extract_fonts_from_code(root)): the reconciler applied
Reconcile ==
    /\ runs < MaxRuns
    /\ \E fonts_used \in extract_fonts_from_code(source) : update_sdkconfig(fonts_used)
    /\ UNCHANGED <<source, sdkInitial, notSdk>>

NextFonts == Reconcile

SpecFonts == InitFonts /\ [][NextFonts]_vars

-----------------------------------------------------------------------------
(* Specification SpecClean: one generate_code call cleans one response.    *)

\* the font reconciler is not part of this specification
SdkIdle ==
    /\ source = <<>>
    /\ sdkconfig = Absent
    /\ printed = NoPrint
    /\ sdkInitial = Absent
    /\ sdkBefore = Absent
    /\ fontsLast = <<>>
    /\ fontsBefore = <<>>
    /\ runs = 0

InitClean ==
    /\ ArdIdle
    /\ SkillIdle
    /\ WiringIdle
    /\ apiKey = TRUE
    /\ SdkIdle
    /\ GraphIdle
    /\ LoopIdle
    /\ DriverIdle
    /\ variant \in {"agent", "agent_arduino"}
    /\ response \in Responses
    /\ cleaned = NotCleaned
    /\ cleanPc = "raw"

\* generate_code from `code = response.content.strip()` to its return (or raise)
CleanCode ==
    /\ cleanPc = "raw"
    /\ cleaned' = clean_code(variant, response)
    /\ cleanPc' = "done"
    /\ UNCHANGED <<variant, response, notClean>>

NextClean == CleanCode

SpecClean == InitClean /\ [][NextClean]_vars

-----------------------------------------------------------------------------
(* Specification SpecGraph: one graph.ainvoke run of one of the pipelines. *)

\* state.platform as a driver leaves it: the agent package's State defaults it
\* to "esp32-s3-box-3", the drivers of agent_arduino pass the platform they
\* built the graph for
DriverPlatform(p) ==
    IF p = "agent" THEN SKILLSETS("agent")[1][1]
    ELSE IF p = "Arduino" THEN ARDUINO
    ELSE ESP_IDF

\* state.platform: a direct caller passes what it likes
Platforms(p) == {DriverPlatform(p), MEGA}

InitGraph ==
    /\ ArdIdle
    /\ SkillIdle
    /\ WiringIdle
    /\ SdkIdle
    /\ CleanIdle
    /\ LoopIdle
    /\ DriverIdle
    /\ apiKey \in BOOLEAN
    /\ pipeline \in {"agent", "Arduino", "ESP-IDF"}
    /\ statePlatform \in Platforms(pipeline)
    /\ wiringOn \in BOOLEAN
    /\ viaDriver \in BOOLEAN
    /\ viaDriver => statePlatform = DriverPlatform(pipeline)
    /\ designFile \in DesignFiles
    /\ designPath \in DesignPaths
    /\ cwdDesign \in (IF designPath = DESIGN_TXT THEN {designFile} ELSE CwdDesigns)
    /\ agentTask = NoTask
    /\ raised = ""
    /\ tasks = [n \in {} |-> "pending"]
    /\ writes = NoWrites
    /\ state = EmptyState(pipeline)
    /\ runStatus = "launching"
    /\ executed = [n \in AllNodes |-> 0]
    /\ completed = [n \in AllNodes |-> 0]
    /\ assemblies = <<>>
    /\ files = NoFiles
    /\ wiringSave = NotSaved

NextGraph ==
    \/ (launch /\ UNCHANGED notGraph)
    \/ (read_design /\ UNCHANGED notGraph)
    \/ (\E n \in AwaitingNodes : StartCall(n) /\ UNCHANGED notGraph)
    \/ (\E n \in AwaitingNodes : CallFails(n) /\ UNCHANGED notGraph)
    \/ (generate_code /\ UNCHANGED notGraph)
    \/ (generate_code_loop /\ UNCHANGED notGraph)
    \/ (generate_diagram /\ UNCHANGED notGraph)
    \/ (reconcile_sdkconfig /\ UNCHANGED notGraph)
    \/ (assemble_project /\ UNCHANGED notGraph)
    \/ (EndStep /\ UNCHANGED notGraph)

SpecGraph == InitGraph /\ [][NextGraph]_vars

-----------------------------------------------------------------------------
(* Specification SpecLoop: one call of IoTAgent.run, from the user task    *)
(* appended to the empty history to the return of _run_agent_loop.         *)
(* SpecLoopLive adds that a pending loop step is eventually taken: the     *)
(* model call is made with timeout=60.0, so it returns or raises.          *)

InitLoop ==
    /\ ArdIdle
    /\ SkillIdle
    /\ WiringIdle
    /\ apiKey = TRUE
    /\ SdkIdle
    /\ CleanIdle
    /\ GraphIdle
    /\ DriverIdle
    /\ loopPc = "call"
    /\ iteration = 0
    /\ messages = << [role |-> "user", content |-> "task"] >>
    /\ modelCalls = 0
    /\ dispatched = <<>>
    /\ lastResponse = NoResponse
    /\ loopResult = ""

NextLoop ==
    \/ (LoopIteration /\ UNCHANGED notLoop)
    \/ (LoopCallRaises /\ UNCHANGED notLoop)
    \/ (LoopCeiling /\ UNCHANGED notLoop)

SpecLoop == InitLoop /\ [][NextLoop]_vars

SpecLoopLive == SpecLoop /\ WF_vars(NextLoop)

-----------------------------------------------------------------------------
(* Specification SpecDriver: one run of the batch driver on a task list,   *)
(* or one run of the single-run driver.                                    *)

MaxSections == 3

TaskIds == {"lab1_task1", "lab1_task2"}
TaskContents == {"", "A", "B"}
TaskFiles == SeqsUpTo(TaskIds \X TaskContents, MaxSections)
Selections == { {}, {"lab1_task2"}, {"lab1_task1", "lab9_task9"} }

InitDriver ==
    /\ ArdIdle
    /\ SkillIdle
    /\ WiringIdle
    /\ SdkIdle
    /\ CleanIdle
    /\ GraphIdle
    /\ LoopIdle
    /\ apiKey \in BOOLEAN
    /\ driver \in {"batch", "single"}
    /\ IF driver = "batch"
       THEN taskFile \in TaskFiles /\ selection \in Selections
       ELSE taskFile = <<>> /\ selection = {}
    /\ tasksDict = <<>>
    /\ driverPc = "start"
    /\ attempts = <<>>
    /\ logged = <<>>

NextDriver ==
    \/ (batch_main_start /\ UNCHANGED notDriver)
    \/ (run_task /\ UNCHANGED notDriver)
    \/ (batch_main_end /\ UNCHANGED notDriver)
    \/ (single_main /\ UNCHANGED notDriver)

SpecDriver == InitDriver /\ [][NextDriver]_vars

-----------------------------------------------------------------------------
(* Specification SpecSkillsets: one call of get_skillset of either package. *)

MaxPad == 1

\* whitespace around an identifier
Pads == SeqsUpTo({SP, "\t", NL}, MaxPad)

\* str.capitalize() of a lower-case identifier
Capitalized(t) == IF t = <<>> THEN t ELSE <<UpperChar(Head(t))>> \o Tail(t)

\* the registered identifiers of both packages and some that are not registered
Identifiers ==
    {SKILLSETS("agent")[i][1] : i \in 1..Len(SKILLSETS("agent"))}
    \cup {SKILLSETS("agent_arduino")[i][1] : i \in 1..Len(SKILLSETS("agent_arduino"))}
    \cup { <<>>, <<"u", "n", "o">>, <<"m", "e", " ", "g", "a">>,
           <<"a", "r", "d", "u", "i", "n", "o">>, <<"e", "s", "p", "-", "i", "d", "f">> }

\* the identifiers in lower case, in upper case and capitalized, with padding
PlatformNames ==
    { l \o c \o r : l \in Pads, r \in Pads,
                    c \in UNION {{k, upper(k), Capitalized(k)} : k \in Identifiers} }

InitSkillsets ==
    /\ ArdIdle
    /\ SkillIdle
    /\ SdkIdle
    /\ CleanIdle
    /\ GraphIdle
    /\ LoopIdle
    /\ DriverIdle
    /\ apiKey = TRUE
    /\ skPkg \in {"agent", "agent_arduino"}
    /\ platformArg \in {[given |-> TRUE, name |-> n] : n \in PlatformNames}
    /\ diagramText = <<>>
    /\ lookup = NoLookup
    /\ parsedData = NotParsed
    /\ wiringPc = "call"

\* get_skillset(platform_name) of package skPkg
GetSkillset ==
    /\ wiringPc = "call"
    /\ lookup' = get_skillset(skPkg, platformArg.name)
    /\ wiringPc' = "done"
    /\ UNCHANGED <<skPkg, platformArg, diagramText, parsedData>>

NextSkillsets == GetSkillset /\ UNCHANGED notWiring

SpecSkillsets == InitSkillsets /\ [][NextSkillsets]_vars

-----------------------------------------------------------------------------
(* Specification SpecWiring: one call of parse_wiring_diagram_text.        *)

MaxLines == 2

\* lines a wiring text is made of
DiagramLines ==
    { <<>>, LED, GPIO21, EXTERNAL_LED,
      <<"g", "p", "i", "o", " ", "l", "e", "d">>,
      <<"C", "o", "m", "p", "o", "n", "e", "n", "t", " ", "|", " ", "P", "i", "n">>,
      <<"R", "e", "s", "i", "s", "t", "o", "r", " ", "|", " ", "T", "e", "r", "m", "i", "n", "a",
      "l", " ", "1">>,
      <<"L", "E", "D", " ", "C", "a", "t", "h", "o", "d", "e", " ", "c", "o", "n", "n", "e", "c",
      "t", "e", "d", " ", "t", "o", " ", "G", "P", "I", "O", " ", "2", "1">>,
      <<"l", "e", "d", " ", "a", "n", "o", "d", "e", " ", "c", "o", "n", "n", "e", "c", "t", "e",
      "d", " ", "t", "o", " ", "r", "e", "s", "i", "s", "t", "o", "r">>,
      <<"R", "e", "s", "i", "s", "t", "o", "r", " ", "c", "o", "n", "n", "e", "c", "t", "e", "d",
      " ", "t", "o", " ", "g", "p", "i", "o", "2", "1">>,
      <<"R", "e", "s", "i", "s", "t", "o", "r", " ", "|", " ", "c", "o", "n", "n", "e", "c", "t",
      "e", "d", " ", "t", "o", " ", "g", "p", "i", "o", " ", "2", "1">> }

DiagramTexts == {join(<<NL>>, ls) : ls \in SeqsUpTo(DiagramLines, MaxLines)}

\* the platform argument: None, empty, resolvable (as registered or padded
\* upper case) and unresolvable
PlatformArgs ==
    { [given |-> FALSE, name |-> <<>>] }
    \cup { [given |-> TRUE, name |-> n] :
             n \in { <<>>, <<"b", "o", "x", "-", "3">>,
                     <<" ", "E", "S", "P", "3", "2", "-", "S", "3", "-", "B", "O", "X", "-", "3",
                     " ">>,
                     <<"m", "e", "g", "a">> } }

InitWiring ==
    /\ ArdIdle
    /\ SkillIdle
    /\ SdkIdle
    /\ CleanIdle
    /\ GraphIdle
    /\ LoopIdle
    /\ DriverIdle
    /\ apiKey = TRUE
    /\ skPkg = "agent"
    /\ platformArg \in PlatformArgs
    /\ diagramText \in DiagramTexts
    /\ lookup = NoLookup
    /\ parsedData = NotParsed
    /\ wiringPc = "call"

\* parse_wiring_diagram_text(diagram_text, platform=platform)
ParseWiring ==
    /\ wiringPc = "call"
    /\ parsedData' = parse_wiring_diagram_text(diagramText, platformArg)
    /\ wiringPc' = "done"
    /\ UNCHANGED <<skPkg, platformArg, diagramText, lookup>>

NextWiring == ParseWiring /\ UNCHANGED notWiring

SpecWiring == InitWiring /\ [][NextWiring]_vars

-----------------------------------------------------------------------------
(* Specification SpecSkillFile: one read_skill_file tool call.             *)

MaxParts == 3

\* the components a filename is made of
FileNameParts ==
    { DOTDOT, EXAMPLES_MD, NOTES_TXT, REFS_MD, REFERENCE_MD, KEYS_MD, MISSING_MD,
      DHT11_SENSOR, PROJECT_ROOT[1] }

\* relative and absolute filenames
FileNames_tool ==
    { [absolute |-> a, parts |-> ps] : a \in BOOLEAN, ps \in SeqsUpTo(FileNameParts, MaxParts) }

InitSkillFile ==
    /\ ArdIdle
    /\ SdkIdle
    /\ CleanIdle
    /\ GraphIdle
    /\ LoopIdle
    /\ DriverIdle
    /\ WiringIdle
    /\ apiKey = TRUE
    /\ skillName \in {ARDUINO_SETUP, DHT11_SENSOR, MPU6050_IMU}
    /\ fileName \in FileNames_tool
    /\ fileResult = None
    /\ toolReply = ""
    /\ skillPc = "call"

\* _handle_tool_call("read_skill_file", {"skill_name": ..., "filename": ...})
ReadSkillFile ==
    /\ skillPc = "call"
    /\ fileResult' = read_skill_file(skillName, fileName)
    /\ toolReply' = handle_read_skill_file(skillName, fileName)
    /\ skillPc' = "done"
    /\ UNCHANGED <<skillName, fileName>>

NextSkillFile == ReadSkillFile /\ UNCHANGED notSkill

SpecSkillFile == InitSkillFile /\ [][NextSkillFile]_vars

-----------------------------------------------------------------------------
(* Specification SpecLvConf: the font skill of the Arduino package called  *)
(* on a project whose sketch is edited between calls.                      *)

MaxLvCalls == 2

\* sets handed to update_lv_conf_h directly
FontSets == { {}, {<<"2", "4">>}, {<<"2", "0">>, <<"3", "2">>}, {<<"1", "2">>} }

\* the sketch of the project
Sketches ==
    { [exists |-> TRUE, data |-> d] :
        d \in { <<>>, <<PFX, "2", "4">>, <<PFX, "2", "4", ";", PFX, "3", "2">>,
                <<PFX, "1", "2">> } }

\* the lv_conf.h candidates a run starts from: none; one as the skill creates
\* it; one with an #endif and no define; one with a define and no #endif; a
\* second candidate with two #endif lines; the second and third candidates
LvStarts ==
    { <<Absent, Absent, Absent>>,
      <<[exists |-> TRUE, data |-> new_lv_conf_h({<<"2", "4">>})], Absent, Absent>>,
      <<[exists |-> TRUE, data |-> <<"#define LV_COLOR_DEPTH 16", NL, ENDIF, NL>>], Absent, Absent>>,
      <<[exists |-> TRUE,
         data |-> <<"#define LV_COLOR_DEPTH 16", NL>> \o DefineLine(24, " 1") \o <<NL>>],
        Absent, Absent>>,
      <<Absent, [exists |-> TRUE, data |-> <<ENDIF, NL, "// tail", NL, ENDIF>>], Absent>>,
      <<Absent, [exists |-> TRUE, data |-> <<ENDIF>>],
        [exists |-> TRUE, data |-> DefineLine(20, " 1") \o <<NL, ENDIF>>]>> }

\* the platformio.ini a run starts from
IniStarts ==
    { Absent,
      [exists |-> TRUE, data |-> <<"[env:esp32s3]", NL>>],
      [exists |-> TRUE,
       data |-> <<"[env:esp32s3]", NL, INDENT, BUILD_FLAGS, " = ", NL, INDENT, "-D", LV_KEY, "2",
                  "4", "=1", NL, INDENT, "-DFOO", NL>>] }

NoSkillResult == [success |-> FALSE, fonts_detected |-> <<>>]
NotReconciled == [success |-> FALSE, libraries |-> {}, lvgl_fonts |-> <<>>]

agentVars == <<agentState, agentBefore, reconciled>>

InitLvConf ==
    /\ SkillIdle
    /\ WiringIdle
    /\ SdkIdle
    /\ CleanIdle
    /\ GraphIdle
    /\ LoopIdle
    /\ DriverIdle
    /\ apiKey = TRUE
    /\ sketch \in Sketches
    /\ lvFiles \in LvStarts
    /\ iniFile \in IniStarts
    /\ lvBefore = <<>>
    /\ lvFonts = <<>>
    /\ lvResult = NoSkillResult
    /\ lvCalls = 0
    /\ lvOp = "none"
    /\ agentState = ArduinoState
    /\ agentBefore = ArduinoState
    /\ reconciled = NotReconciled

\* skill.update_lv_conf_h(fonts_used)
UpdateLvConfH ==
    /\ lvCalls < MaxLvCalls
    /\ \E fonts_used \in FontSets :
          /\ lvFiles' = update_lv_conf_h(lvFiles, fonts_used)
          /\ lvFonts' = Append(lvFonts, fonts_used)
    /\ lvBefore' = Append(lvBefore, lvFiles)
    /\ lvResult' = [success |-> TRUE, fonts_detected |-> <<>>]
    /\ lvCalls' = lvCalls + 1
    /\ lvOp' = "update"
    /\ UNCHANGED <<sketch, iniFile, agentVars>>

\* the history of update_lv_conf_h calls after a call of execute()
ExecuteHistory ==
    IF skill_extract_fonts_from_code(sketch) = {}
    THEN UNCHANGED <<lvBefore, lvFonts>>
    ELSE /\ lvBefore' = Append(lvBefore, lvFiles)
         /\ lvFonts' = Append(lvFonts, skill_extract_fonts_from_code(sketch))

\* skill.execute()
Execute ==
    /\ lvCalls < MaxLvCalls
    /\ \E fonts_detected \in SortedByInt(skill_extract_fonts_from_code(sketch)) :
          LET ran == execute(sketch, lvFiles, iniFile, fonts_detected)
          IN  /\ lvFiles' = ran.lv_files
              /\ iniFile' = ran.ini_file
              /\ lvResult' = ran.result
    /\ ExecuteHistory
    /\ lvCalls' = lvCalls + 1
    /\ lvOp' = "execute"
    /\ UNCHANGED <<sketch, agentVars>>

\* the sketch is edited between two calls
EditSketch ==
    /\ lvOp \notin {"none", "edit"}
    /\ lvCalls < MaxLvCalls
    /\ sketch' \in Sketches \ {sketch}
    /\ lvOp' = "edit"
    /\ UNCHANGED <<lvFiles, iniFile, lvBefore, lvFonts, lvResult, lvCalls, agentVars>>

NextLvConf ==
    \/ (UpdateLvConfH /\ UNCHANGED notArd)
    \/ (Execute /\ UNCHANGED notArd)
    \/ (EditSketch /\ UNCHANGED notArd)

SpecLvConf == InitLvConf /\ [][NextLvConf]_vars

-----------------------------------------------------------------------------
(* Specification SpecAgent: ArduinoAgent.reconcile_libraries called on a   *)
(* project whose sketch is edited or removed between calls.                *)

\* the sketch of the project: none; lvgl with one font, with two, with none;
\* another library and a font
AgentSketches ==
    { Absent } \cup
    { [exists |-> TRUE, data |-> d] :
        d \in { <<INCLUDE, SP, "<", "lvgl.h", ">", NL, PFX, "2", "4">>,
                <<INCLUDE, "<", "lvgl.h", ">", NL, INCLUDE, SP, QUOTE, "WiFi.h", QUOTE, NL,
                  PFX, "3", "2", ";", PFX, "2", "0">>,
                <<INCLUDE, SP, "<", "lvgl.h", ">", NL>>,
                <<INCLUDE, SP, QUOTE, "WiFi.h", QUOTE, NL, INCLUDE, SP, "<", "Arduino.h", ">",
                  NL, PFX, "2", "0">> } }

InitAgent ==
    /\ SkillIdle
    /\ WiringIdle
    /\ SdkIdle
    /\ CleanIdle
    /\ GraphIdle
    /\ LoopIdle
    /\ DriverIdle
    /\ apiKey = TRUE
    /\ sketch \in AgentSketches
    /\ lvFiles \in LvStarts
    /\ iniFile \in IniStarts
    /\ lvBefore = <<>>
    /\ lvFonts = <<>>
    /\ lvResult = NoSkillResult
    /\ lvCalls = 0
    /\ lvOp = "none"
    /\ agentState = ArduinoState
    /\ agentBefore = ArduinoState
    /\ reconciled = NotReconciled

\* whether reconcile_libraries() runs update_lv_conf_h through skill.execute()
RunsUpdate ==
    /\ sketch.exists
    /\ LVGL \in required_libraries(sketch.data)
    /\ skill_extract_fonts_from_code(sketch) # {}

\* agent.reconcile_libraries(code_path), code_path the project's sketch
\* arduino_project/arduino_project.ino, the file the skill scans too
ReconcileLibraries ==
    /\ lvCalls < MaxLvCalls
    /\ \E fonts_detected \in SortedByInt(skill_extract_fonts_from_code(sketch)) :
          \E r \in {reconcile_libraries(agentState, sketch, lvFiles, iniFile, fonts_detected)} :
              /\ agentState' = r.state
              /\ reconciled' = r.result
              /\ lvResult' = r.skill
              /\ lvFiles' = r.lv_files
              /\ iniFile' = r.ini_file
    /\ agentBefore' = agentState
    /\ IF RunsUpdate
       THEN /\ lvBefore' = Append(lvBefore, lvFiles)
            /\ lvFonts' = Append(lvFonts, skill_extract_fonts_from_code(sketch))
       ELSE UNCHANGED <<lvBefore, lvFonts>>
    /\ lvCalls' = lvCalls + 1
    /\ lvOp' = "reconcile"
    /\ UNCHANGED sketch

\* the sketch is edited or removed between two calls
EditAgentSketch ==
    /\ lvOp \notin {"none", "edit"}
    /\ lvCalls < MaxLvCalls
    /\ sketch' \in AgentSketches \ {sketch}
    /\ lvOp' = "edit"
    /\ UNCHANGED <<lvFiles, iniFile, lvBefore, lvFonts, lvResult, lvCalls, agentVars>>

NextAgent ==
    \/ (ReconcileLibraries /\ UNCHANGED notArd)
    \/ (EditAgentSketch /\ UNCHANGED notArd)

SpecAgent == InitAgent /\ [][NextAgent]_vars

-----------------------------------------------------------------------------
(* Properties of the font reconciler.                                      *)

\* a line without its terminator
Chomp(line) ==
    IF line # <<>> /\ line[Len(line)] = NL THEN SubSeq(line, 1, Len(line) - 1) ELSE line

\* the lines of the file that carry the tracked key, in file order
FontLines(file) == SelectSeq(config_lines(file), LAMBDA line : HasToken(line, KEY))

\* the lines of the file that do not carry the tracked key, in file order
OtherLines(file) == SelectSeq(config_lines(file), LAMBDA line : ~HasToken(line, KEY))

\* the number of lines of the file that equal the given line
CountLine(file, line) ==
    Cardinality({i \in 1..Len(config_lines(file)) : config_lines(file)[i] = line})

\* C1: update_sdkconfig is idempotent: for every initial content of the file
\* (absent, empty, any lines, last line with or without a newline) a second run
\* with the same tokens leaves the file identical to the result of the first run.
C1_Idempotent ==
    (runs >= 2 /\ fontsLast = fontsBefore) => sdkconfig = sdkBefore

\* C2: after update_sdkconfig returns, for every initial file content, each of
\* the nine known sizes occurs in exactly one line, that line is the enabled or
\* the disabled form, and the nine lines are in ascending size order.
C2_Complete ==
    runs >= 1 =>
        /\ sdkconfig.exists
        /\ Len(FontLines(sdkconfig)) = Len(all_sizes)
        /\ \A i \in 1..Len(all_sizes) :
              FontLines(sdkconfig)[i] \in {EnabledLine(all_sizes[i]), DisabledLine(all_sizes[i])}

\* C4: every line of the initial file that does not carry the tracked key is
\* still present, unmodified and in its original order after any number of
\* reconciliations, and all such lines precede the nine font lines.
C4_RestPreserved ==
    runs >= 1 =>
        LET now == config_lines(sdkconfig)
            kept == OtherLines(sdkInitial)
        IN  /\ Len(now) = Len(kept) + Len(all_sizes)
            /\ \A i \in 1..Len(kept) : Chomp(now[i]) = Chomp(kept[i])
            /\ \A i \in (Len(kept) + 1)..Len(now) : HasToken(now[i], KEY)

\* the known universe as tokens
KnownTokens == {str(all_sizes[i]) : i \in 1..Len(all_sizes)}

\* C3: for every source text the reconciled configuration enables a known size
\* exactly when the pattern extracts that token from the source and disables
\* every other known size; an extracted token outside the known universe
\* produces no line and no report.
C3_EnabledIffExtracted ==
    runs >= 1 =>
        /\ \A i \in 1..Len(all_sizes) :
              LET n == all_sizes[i] IN
              /\ CountLine(sdkconfig, EnabledLine(n))
                    = (IF str(n) \in fonts_found(source) THEN 1 ELSE 0)
              /\ CountLine(sdkconfig, DisabledLine(n))
                    = (IF str(n) \in fonts_found(source) THEN 0 ELSE 1)
        /\ \A tok \in fonts_found(source) \ KnownTokens :
              /\ \A i \in 1..Len(FontLines(sdkconfig)) :
                    FontLines(sdkconfig)[i] \notin
                        {<<KEY>> \o tok \o <<"=y", NL>>,
                         <<"# ", KEY>> \o tok \o <<" is not set", NL>>}
              /\ ~InList(tok, printed.fonts)

-----------------------------------------------------------------------------
(* Properties of the code-cleaning step.                                   *)

\* the openers of a fenced block: the fence alone or with a recognised tag
TaggedOpeners ==
    { FENCE, FENCE_C, FENCE_CPP, FENCE_CXX, FENCE_ARDUINO, FENCE \o <<"i", "n", "o">> }

\* the response is one fenced block: opener line, body, closing fence
IsWrapped(t) ==
    \E op \in TaggedOpeners :
        /\ startswith(t, op \o <<NL>>)
        /\ endswith(t, FENCE)
        /\ Len(t) >= Len(op) + 1 + Len(FENCE)
        /\ ~Contains(SubSeq(t, Len(op) + 2, Len(t) - Len(FENCE)), FENCE)

\* the text between the opener line and the closing fence
WrappedBody(t) ==
    LET op == CHOOSE o \in TaggedOpeners : startswith(t, o \o <<NL>>)
    IN  SubSeq(t, Len(op) + 2, Len(t) - Len(FENCE))

\* C5: for every response wrapped in a fenced block whose opener is the fence
\* alone or the fence with a recognised tag (c, cpp, c++, arduino, ino), the
\* cleaned text holds neither the opener line (tag included) nor the closing
\* fence: it is taken from the block's body.
C5_FencesExcluded ==
    (cleanPc = "done" /\ IsWrapped(strip(response))) =>
        /\ ~cleaned.raised
        /\ ~Contains(cleaned.code, FENCE)
        /\ Contains(WrappedBody(strip(response)), cleaned.code)

\* a markdown heading of level k >= 1 whose text contains "wiring"
IsWiringHeading(line, levels) ==
    /\ \E k \in levels :
          /\ Len(strip(line)) > k
          /\ \A j \in 1..k : strip(line)[j] = "#"
          /\ strip(line)[k + 1] = SP
    /\ Contains(lower(line), WIRING_LOWER)

\* a wiring-diagram section line or a connection section line
IsSectionLine(line) ==
    \/ Contains(upper(line), MARK_WIRING_DIAGRAM)
    \/ Contains(upper(line), MARK_CONNECTION)

\* a line the claim counts as a marker: a section line or a wiring heading of
\* one of the given levels
IsMarker(line, levels) == IsSectionLine(line) \/ IsWiringHeading(line, levels)

\* position of the first marker line among the lines; 0 when there is none
FirstMarker(ls, levels) ==
    IF \E i \in 1..Len(ls) : IsMarker(ls[i], levels)
    THEN CHOOSE i \in 1..Len(ls) :
            IsMarker(ls[i], levels) /\ \A j \in 1..(i - 1) : ~IsMarker(ls[j], levels)
    ELSE 0

\* code followed by a marker line: line m is the first marker line and some
\* text precedes it
CodeThenMarker(ls, m) == m > 0 /\ strip(join_lines(SubSeq(ls, 1, m - 1))) # <<>>

\* the cleaned text is taken from the text before the first marker line
CutAtMarker(levels) ==
    cleanPc = "done" =>
        LET ls == split_lines(response)
            m == FirstMarker(ls, levels)
        IN  CodeThenMarker(ls, m) =>
                /\ ~cleaned.raised
                /\ Contains(join_lines(SubSeq(ls, 1, m - 1)), cleaned.code)

AnyLevel == 1..6

\* C6 as claimed: when code is followed by a wiring-diagram section, a connection
\* section or a markdown heading of any level whose text contains "wiring", the
\* cleaned code holds no line from the first such marker line onward.
C6_CutAtAnyHeading == CutAtMarker(AnyLevel)

\* C6 amended: the same for a wiring-diagram section, a connection section or a
\* level-1 heading ("# " first on the stripped line) whose text contains "wiring".
C6_CutAtLevel1Heading == CutAtMarker({1})

\* C6 witness: a cleaned response whose first marker is a level-1 wiring heading
\* that follows code ending in a brace and a comment, with code returned
C6_Witness ==
    /\ cleanPc = "done"
    /\ LET ls == split_lines(response)
           m == FirstMarker(ls, {1})
       IN  /\ CodeThenMarker(ls, m)
           /\ IsWiringHeading(ls[m], {1})
    /\ Contains(cleaned.code, <<BRACE, NL>> \o SLASHES)

\* every line of the text is blank or a // comment
OnlyComments(t) ==
    \A i \in 1..Len(split_lines(t)) :
        \/ strip(split_lines(t)[i]) = <<>>
        \/ startswith(strip(split_lines(t)[i]), SLASHES)

\* C7: when the text after the last closing brace consists only of comment
\* lines and whitespace it is preserved unchanged; when any non-whitespace,
\* non-comment content follows the last closing brace (even after a leading
\* comment line) everything after that brace is discarded.
C7_TailAfterBrace ==
    (cleanPc = "done" /\ ~cleaned.raised /\ HasToken(scanned(variant, response).code, BRACE)) =>
        LET code == scanned(variant, response).code
        IN  IF OnlyComments(potential_end(code))
            THEN cleaned.code = code
            ELSE cleaned.code = strip(SubSeq(code, 1, rfind(code, BRACE)))

\* C8: the step never raises, and a response with neither a code fence nor a
\* closing brace is returned whitespace-trimmed and otherwise unchanged.
C8_NeverRaises ==
    cleanPc = "done" =>
        /\ ~cleaned.raised
        /\ (~Contains(response, FENCE) /\ ~HasToken(response, BRACE))
              => cleaned.code = strip(response)


-----------------------------------------------------------------------------
(* Properties of the pipelines.                                            *)

\* the generation steps whose request is in flight
InFlight == {n \in GenerationNodes : Running(n)}

\* the fields of the State the assembly step writes files from
Inputs(st) ==
    << st[CodeField(pipeline)],
       IF "sdkconfig" \in DOMAIN st THEN st.sdkconfig ELSE "",
       st.wiring_diagram >>

\* the run stopped for a reason outside the pipeline: the design file, the key,
\* a failed service call, or a state.platform that is not the graph's own
OutsideFailure ==
    /\ runStatus = "failed"
    /\ \/ raised \in {"ValueError", MissingKey, "GenerationError"}
       \/ statePlatform # DriverPlatform(pipeline)

\* C9: the assembly step executes exactly once per run, only after code
\* generation, reconciliation (ESP-IDF) and diagram generation (when enabled)
\* have completed, and the State it reads holds the final firmware code,
\* sdkconfig and wiring text.
C9_AssemblyOnceAfterAll ==
    LET a == AssemblyNode(pipeline)
    IN  /\ executed[a] <= 1
        /\ (runStatus \in {"finished", "failed"} /\ ~OutsideFailure) => executed[a] = 1
        /\ executed[a] >= 1 =>
              /\ completed[CodeNode(pipeline)] >= 1
              /\ pipeline = "ESP-IDF" => completed["reconcile_sdkconfig"] >= 1
              /\ wiringOn => completed["generate_diagram"] >= 1
        /\ runStatus = "finished" =>
              \A i \in 1..Len(assemblies) : Inputs(assemblies[i]) = Inputs(state)

BadDesign == ~designFile.exists \/ strip(designFile.text) = <<>>

\* C11: with a missing or empty (after stripping) design file the run aborts in
\* read_design with a ValueError, no text-generation step is ever started and
\* no project file is written.
C11_BadDesignAbortsFirst ==
    BadDesign =>
        /\ \A n \in AllNodes \ {"read_design"} : executed[n] = 0
        /\ files = NoFiles
        /\ runStatus # "finished"
        /\ executed["read_design"] >= 1 => runStatus = "failed" /\ raised = "ValueError"

\* a run on a whitespace-only design file after read_design has raised
C11_Witness ==
    /\ designFile = [exists |-> TRUE, text |-> <<SP, NL>>]
    /\ executed["read_design"] = 1
    /\ runStatus = "failed"

-----------------------------------------------------------------------------
(* Properties of the tool-calling loop.                                    *)

\* the last response asked for tools
RequestsTools(r) == r.stop_reason # "end_turn" /\ ToolBlocks(r.content) # <<>>

\* what holds of the loop at every point: at most 10 model calls, and after a
\* tenth response that still requests tools the loop returns ""
LoopBounded ==
    /\ modelCalls <= 10
    /\ iteration = modelCalls
    /\ (loopPc = "returned" /\ modelCalls = 10 /\ RequestsTools(lastResponse))
          => loopResult = ""
    /\ (loopPc = "call" /\ modelCalls = 10) => RequestsTools(lastResponse)

\* C12: _run_agent_loop terminates for every sequence of model responses,
\* makes at most 10 model calls, and returns "" when the 10th response still
\* requests tools.
C12_LoopTerminatesWithinCeiling ==
    /\ []LoopBounded
    /\ <>(loopPc \in {"returned", "raised"})

\* the loop stopped at its ceiling: ten calls, the tenth asked for tools
C12_Witness ==
    /\ loopPc = "returned"
    /\ modelCalls = 10
    /\ RequestsTools(lastResponse)
    /\ loopResult = ""

-----------------------------------------------------------------------------
(* Properties of the assembly step.                                        *)

\* the assembly step has returned its "created successfully" message
AssemblyReturned == completed[AssemblyNode(pipeline)] >= 1

\* the code the generation step returned (what assembly read in its last run)
GeneratedCode == assemblies[Len(assemblies)][CodeField(pipeline)]

\* C13: whenever assembly has reported success, the project holds the source
\* file its manifest / README names, with the generated code in it.
C13_SourceWrittenOnSuccess ==
    AssemblyReturned => files["source"] # "" /\ files["source"] = GeneratedCode

\* the wiring save of the last assembly raised
SaveRaised == wiringSave.outcome \in {"json_raises", "md_raises", "svg_raises"}

\* the wiring save of the last assembly found no usable mmdc tool
SaveWithoutMmdc == wiringSave.outcome \in {"no_mmdc", "mmdc_failed"}

\* C15: a failure while saving the wiring documents never aborts assembly: every
\* started assembly returns its success message, the source file and manifest
\* written before the save remain, README.md (and sdkconfig, sdkconfig.defaults
\* outside Arduino) are written after it; a missing mmdc only omits "svg".
C15_WiringSaveFailureNotFatal ==
    /\ executed[AssemblyNode(pipeline)] = completed[AssemblyNode(pipeline)]
    /\ (SaveRaised \/ SaveWithoutMmdc) =>
          /\ AssemblyReturned
          /\ files["README.md"] # ""
          /\ GeneratedCode # "" => files["source"] = GeneratedCode
          /\ pipeline # "Arduino" =>
                /\ files["manifest"] # ""
                /\ files["sdkconfig"] # ""
                /\ files["sdkconfig.defaults"] # ""
    /\ SaveWithoutMmdc =>
          /\ wiringSave.saved = {"json", "markdown"}
          /\ files["WIRING.json"] # "" /\ files["WIRING.md"] # ""

\* an assembly whose wiring save raised before writing anything, and returned
C15_Witness ==
    /\ wiringSave.outcome = "json_raises"
    /\ AssemblyReturned
    /\ files["README.md"] # ""
    /\ files["WIRING.json"] = ""

-----------------------------------------------------------------------------
(* Properties of the drivers.                                              *)

\* section i of the file is one the batch has to run: it has content, its id is
\* selected, and no earlier section with content has the same id
FirstOfItsTask(i) ==
    /\ taskFile[i][2] # ""
    /\ selection # {} => taskFile[i][1] \in selection
    /\ \A j \in 1..(i - 1) : ~(taskFile[j][1] = taskFile[i][1] /\ taskFile[j][2] # "")

\* the ids the batch has to run, in file order
RECURSIVE DueFrom(_)
DueFrom(i) ==
    IF i > Len(taskFile) THEN <<>>
    ELSE (IF FirstOfItsTask(i) THEN <<taskFile[i][1]>> ELSE <<>>) \o DueFrom(i + 1)

AttemptIds == [i \in 1..Len(attempts) |-> attempts[i].id]

FailedIds == SelectSeq(attempts, LAMBDA a : a.outcome = "raises")

\* C14: the batch driver attempts each selected task exactly once in file order
\* whatever runs fail: a failing run is caught and logged and never halts main;
\* in the single-run driver a failing run halts main.
C14_BatchSurvivesFailures ==
    /\ driver = "batch" =>
          /\ driverPc = "halted" => ~apiKey /\ attempts = <<>>
          /\ driverPc \in {"run", "done"} =>
                AttemptIds = SubSeq(DueFrom(1), 1, Len(attempts))
          /\ driverPc = "done" => AttemptIds = DueFrom(1)
          /\ logged = [i \in 1..Len(FailedIds) |-> FailedIds[i].id]
    /\ driver = "single" =>
          /\ Len(attempts) <= 1
          /\ apiKey => ((attempts # <<>> /\ attempts[1].outcome = "raises")
                            <=> driverPc = "halted")

\* a finished batch whose first run failed and whose second run was still made
C14_Witness ==
    /\ driver = "batch"
    /\ driverPc = "done"
    /\ Len(attempts) = 2
    /\ attempts[1].outcome = "raises"
    /\ logged # <<>>

-----------------------------------------------------------------------------
(* Properties of the credential check.                                     *)

-----------------------------------------------------------------------------
(* Properties of the platform catalog and the wiring parser.               *)

AllWhite(t) == \A i \in 1..Len(t) : t[i] \in Whitespace

\* name is the identifier key in some letter case with whitespace around it
Names(name, key) ==
    \E i \in 0..Len(name) : \E j \in i..Len(name) :
        /\ AllWhite(SubSeq(name, 1, i))
        /\ AllWhite(SubSeq(name, j + 1, Len(name)))
        /\ lower(SubSeq(name, i + 1, j)) = key

MEGA_2560 == MEGA \o <<"-", "2", "5", "6", "0">>
ARDUINO_MEGA_2560_R3_ID ==
    <<"a", "r", "d", "u", "i", "n", "o", "-">> \o MEGA_2560 \o <<"-", "r", "3">>

Resolvable(platform) ==
    platform.given /\ platform.name # <<>> /\ get_skillset("agent", platform.name).raises = ""

\* C17: whatever the wiring text and the platform argument, no two entries of
\* the returned components list have the same name.
C17_ComponentNamesUnique ==
    wiringPc = "done" =>
        \A i \in 1..Len(parsedData.components) : \A j \in 1..Len(parsedData.components) :
            parsedData.components[i].name = parsedData.components[j].name => i = j

HasConnection(from, to) ==
    \E i \in 1..Len(parsedData.connections) :
        parsedData.connections[i].from = from /\ parsedData.connections[i].to = to

\* C19: for a wiring text holding both LED and GPIO, or both External LED and
\* GPIO21, the connections include LED to resistor, LED to GND and resistor to
\* GPIO21, and pin_mappings["GPIO21"] is typed digital_output, whatever the
\* platform catalog seeded.
C19_LedProjectRecords ==
    (wiringPc = "done" /\ is_led_project(diagramText)) =>
        /\ HasConnection(EXTERNAL_LED, RESISTOR_100)
        /\ HasConnection(EXTERNAL_LED, GND)
        /\ HasConnection(RESISTOR_100, GPIO21)
        /\ KeyIndex(parsedData.pin_mappings, GPIO21) # 0
        /\ parsedData.pin_mappings[KeyIndex(parsedData.pin_mappings, GPIO21)][2].type
              = "digital_output"
        /\ \A i \in 1..Len(parsedData.pin_mappings) : \A j \in 1..Len(parsedData.pin_mappings) :
              parsedData.pin_mappings[i][1] = parsedData.pin_mappings[j][1] => i = j

\* an LED text parsed for a platform whose catalog seeds a GPIO21 entry
C19_Witness ==
    /\ wiringPc = "done"
    /\ is_led_project(diagramText)
    /\ Resolvable(platformArg)
    /\ KeyIndex(seeded(platformArg).pin_mappings, GPIO21) # 0
    /\ seeded(platformArg).pin_mappings[KeyIndex(seeded(platformArg).pin_mappings, GPIO21)][2].type
          = "digital"
    /\ parsedData.pin_mappings[KeyIndex(parsedData.pin_mappings, GPIO21)][2].type
          = "digital_output"


-----------------------------------------------------------------------------
(* Properties of the skill registry.                                       *)

\* the .md files in the directory of skill s
OwnFiles(s) ==
    { i \in 1..Len(Disk) :
        /\ startswith(Disk[i][1], SKILLS_DIR \o <<s>>)
        /\ suffix(Disk[i][1]) = DOT_MD }

\* C20: read_skill_file returns content only for .md files inside the named
\* skill's own directory, whatever the filename ('..' components, absolute
\* paths), and returns None for an unknown skill and for a filename that is
\* not a .md file or names no file.
C20_ReadsOnlyOwnMarkdown ==
    skillPc = "done" =>
        /\ ~fileResult.none =>
              /\ skillName \in skill_dirs
              /\ \E i \in OwnFiles(skillName) : Disk[i][2] = fileResult.content
        /\ ( \/ skillName \notin skill_dirs
             \/ suffix(fileName.parts) # DOT_MD
             \/ ~exists(joinpath(SKILLS_DIR \o <<skillName>>, fileName)) ) => fileResult.none

-----------------------------------------------------------------------------
(* Properties of the line scan of parse_wiring_diagram_text.               *)

\* the lines of the text just parsed, stripped
TextLines == <<>> \o [i \in 1..Len(split(diagramText, NL)) |-> strip(split(diagramText, NL)[i])]

\* a line that opens the connection table
IsTableHeading(line) ==
    \/ /\ Contains(lower(line), <<"c", "o", "m", "p", "o", "n", "e", "n", "t">>)
       /\ (Contains(lower(line), <<"p", "i", "n">>) \/ Contains(lower(line), <<"w", "i", "r", "e">>))
    \/ Contains(lower(line), <<"w", "i", "r", "i", "n", "g", " ", "c", "o", "n", "n", "e", "c",
                             "t", "i", "o", "n", " ", "t", "a", "b", "l", "e">>)

\* a line inside a detected table: a heading stands before it, and it is no heading
InTable(k) ==
    /\ ~IsTableHeading(TextLines[k])
    /\ \E h \in 1..(k - 1) : IsTableHeading(TextLines[h])

\* the cells of a line, stripped
Cells(line) == <<>> \o [i \in 1..Len(split(line, BAR)) |-> strip(split(line, BAR)[i])]

\* a row of at least two cells whose first holds `first` and second holds `second`
IsRow(line, first, second) ==
    /\ Len(Cells(line)) >= 2
    /\ Contains(Cells(line)[1], first)
    /\ Contains(Cells(line)[2], second)

HasRecord(c) == \E i \in 1..Len(parsedData.connections) : parsedData.connections[i] = c

\* C21: inside a detected connection table a row naming the resistor with
\* 'Terminal 1' in its second cell appends the resistor-to-GPIO21 connection,
\* and a row naming 'External LED' with '(+) Anode' or '(-) Cathode' appends the
\* LED-to-resistor or LED-to-GND connection.
C21_TableRowsSynthesize ==
    wiringPc = "done" =>
        \A k \in 1..Len(TextLines) : InTable(k) =>
            /\ IsRow(TextLines[k], <<"R", "e", "s", "i", "s", "t", "o", "r">>, <<"T", "e", "r", "m", "i", "n", "a", "l", " ", "1">>) =>
                  HasRecord(Connection(RESISTOR_100, GPIO21, <<"T", "e", "r", "m", "i", "n", "a", "l", " ", "1">>,
                                       <<"R", "e", "s", "i", "s", "t", "o", "r", " ", "t", "e",
                                       "r", "m", "i", "n", "a", "l", " ", "1", " ", "c", "o",
                                       "n", "n", "e", "c", "t", "e", "d", " ", "t", "o", " ",
                                       "G", "P", "I", "O", "2", "1">>))
            /\ IsRow(TextLines[k], EXTERNAL_LED, <<"(", "+", ")", " ", "A", "n", "o", "d", "e">>) =>
                  HasRecord(Connection(EXTERNAL_LED, RESISTOR_100, <<"A", "n", "o", "d", "e", " ", "(", "+", ")">>,
                                       <<"L", "E", "D", " ", "a", "n", "o", "d", "e", " ", "c",
                                       "o", "n", "n", "e", "c", "t", "e", "d", " ", "t", "o",
                                       " ", "1", "0", "0", "U+00CE", "U+00A9", " ", "r", "e",
                                       "s", "i", "s", "t", "o", "r">>))
            /\ IsRow(TextLines[k], EXTERNAL_LED, <<"(", "-", ")", " ", "C", "a", "t", "h", "o", "d",
                                        "e">>) =>
                  HasRecord(Connection(EXTERNAL_LED, GND, <<"C", "a", "t", "h", "o", "d", "e", " ", "(", "-",
                                        ")">>,
                                       <<"L", "E", "D", " ", "c", "a", "t", "h", "o", "d", "e",
                                       " ", "c", "o", "n", "n", "e", "c", "t", "e", "d", " ",
                                       "t", "o", " ", "G", "N", "D">>))

\* C22: every line holding 'connected to' and a known phrase pair appends its
\* connection, whether or not the line is a table heading or a row inside a
\* detected table.
C22_StatementsIndependentOfTable ==
    wiringPc = "done" =>
        \A k \in 1..Len(TextLines) :
            ( /\ Contains(lower(TextLines[k]), <<"c", "o", "n", "n", "e", "c", "t", "e", "d", " ", "t",
                                        "o">>)
              /\ statement(lower(TextLines[k])) # <<>> )
            => HasRecord(statement(lower(TextLines[k]))[1])

\* a text with no table heading, no 'connected to' and no fallback keyword pair
NoStructure ==
    /\ \A k \in 1..Len(TextLines) :
          ~IsTableHeading(TextLines[k]) /\ ~Contains(lower(TextLines[k]), <<"c", "o", "n", "n", "e", "c", "t", "e", "d", " ", "t",
                                        "o">>)
    /\ ~(Contains(diagramText, LED) /\ Contains(diagramText, GPIO))
    /\ ~(Contains(diagramText, EXTERNAL_LED) /\ Contains(diagramText, GPIO21))

\* C23 as stated: a text with no recognizable structure gives empty connections
\* and empty pin_mappings, and components when the seeding succeeded.
C23_NoStructureEmpty ==
    (wiringPc = "done" /\ NoStructure) =>
        /\ parsedData.connections = <<>>
        /\ parsedData.pin_mappings = <<>>
        /\ Resolvable(platformArg) => parsedData.components # <<>>

\* C23: the parser returns a result for every text and platform argument; for a
\* text with no recognizable structure the connections are empty, pin_mappings
\* holds the seeded entries and nothing else (none when no platform resolved),
\* and components holds the seeded components followed by the known ones.
C23_NoStructureSeedOnly ==
    wiringPc = "done" =>
        /\ parsedData # NotParsed
        /\ NoStructure =>
              /\ parsedData.connections = <<>>
              /\ parsedData.pin_mappings = seeded(platformArg).pin_mappings
              /\ ~Resolvable(platformArg) => parsedData.pin_mappings = <<>>
              /\ parsedData.components = seeded(platformArg).components \o known_components
              /\ parsedData.components # <<>>

\* a text with no structure parsed for a platform that resolved and seeded pins
C23_Witness ==
    /\ wiringPc = "done"
    /\ NoStructure
    /\ diagramText # <<>>
    /\ Resolvable(platformArg)
    /\ parsedData.pin_mappings # <<>>
    /\ parsedData.connections = <<>>

-----------------------------------------------------------------------------
(* Properties of the font skill of the Arduino package.                    *)

\* the lv_conf.h the skill uses, once one exists
LvConf(lv_files) == lv_files[lv_conf_path(lv_files)]

\* the lines of lv_conf.h that hold the font key, in file order
LvFontLines(lv_files) ==
    SelectSeq(split(LvConf(lv_files).data, NL), LAMBDA line : HasToken(line, LV_KEY))

\* C24: update_lv_conf_h is idempotent: for every existing lv_conf.h and every
\* font set, a second call with the same font set leaves the file byte-identical
\* to the result of the first call.
C24_LvConfIdempotent ==
    ( /\ lvOp = "update"
      /\ Len(lvFonts) >= 2
      /\ lvFonts[Len(lvFonts)] = lvFonts[Len(lvFonts) - 1]
      /\ lv_conf_path(lvBefore[Len(lvBefore) - 1]) # 0 )
    => lvFiles = lvBefore[Len(lvBefore)]

\* C25: after update_lv_conf_h returns True, whatever lv_conf.h was before
\* (absent, with an #endif, without one, with several), each of the nine known
\* sizes is defined by exactly one '#define LV_FONT_MONTSERRAT_<n> <0|1>' line,
\* in ascending size order, with value 1 exactly for the detected sizes.
C25_NineDefinesAscending ==
    lvOp = "update" =>
        /\ lv_conf_path(lvFiles) # 0
        /\ LvFontLines(lvFiles) = generate_lv_conf_defines(lvFonts[Len(lvFonts)])

\* the known sizes
KnownSizes == {font_sizes[i] : i \in 1..Len(font_sizes)}

\* the sizes a configuration file enables
EnabledInLvConf ==
    IF lv_conf_path(lvFiles) = 0 THEN {}
    ELSE {n \in KnownSizes : \E i \in 1..Len(LvFontLines(lvFiles)) :
                                           LvFontLines(lvFiles)[i] = DefineLine(n, " 1")}

EnabledInIni ==
    IF ~iniFile.exists THEN {}
    ELSE {n \in KnownSizes :
            \E i \in 1..Len(readlines(iniFile.data)) :
                readlines(iniFile.data)[i]
                    = <<INDENT, "-D", LV_KEY>> \o str(n) \o <<"=1", NL>>}

\* C26: after any run of a font-configuration entry point a size is enabled in
\* the configuration files only if the current source references it; sizes an
\* earlier run enabled are no longer enabled once the source references none.
C26_EnabledOnlyIfReferenced ==
    lvOp = "execute" =>
        \A n \in EnabledInLvConf \cup EnabledInIni :
            str(n) \in skill_extract_fonts_from_code(sketch)

-----------------------------------------------------------------------------
(* Properties of ArduinoAgent.                                             *)

\* the orders a list made from the set S can have
Orders(S) ==
    {s \in [1..Cardinality(S) -> S] : \A i, j \in 1..Cardinality(S) : i # j => s[i] # s[j]}

\* generate_platformio_ini() emits an LV_FONT_MONTSERRAT flag
EmitsFontFlags ==
    \E libs \in Orders(agentState.libraries) :
        \E i \in 1..Len(generate_platformio_ini(agentState, libs)) :
            HasToken(generate_platformio_ini(agentState, libs)[i], LV_KEY)

\* C30: after every successful reconcile_libraries call, state.lvgl_fonts
\* reflects only the sketch just analysed: without lvgl.h in it lvgl_fonts is
\* empty and generate_platformio_ini emits no LV_FONT_MONTSERRAT flag; a failed
\* call (sketch not found) leaves state.libraries and state.lvgl_fonts unchanged.
C30_FontsReflectSketch ==
    lvOp = "reconcile" =>
        /\ reconciled.success =>
              /\ agentState.libraries = required_libraries(sketch.data)
              /\ LVGL \in agentState.libraries =>
                    agentState.lvgl_fonts \in SortedByInt(skill_extract_fonts_from_code(sketch))
              /\ LVGL \notin agentState.libraries =>
                    agentState.lvgl_fonts = <<>> /\ ~EmitsFontFlags
        /\ ~reconciled.success => agentState = agentBefore

-----------------------------------------------------------------------------
(* Properties of the tool dispatch and of the message history.             *)

\* how many times the tool_use id was handed to _handle_tool_call
TimesDispatched(id) == Cardinality({i \in 1..Len(dispatched) : dispatched[i] = id})

\* C27: every tool_use block contained in a model response is dispatched to
\* _handle_tool_call exactly once in the iteration that processes the response.
C27_DispatchedOncePerBlock ==
    \A i \in 1..Len(lastResponse.content) :
        lastResponse.content[i].type = "tool_use"
            => TimesDispatched(lastResponse.content[i].id) = 1

\* self.messages starts with the user task, alternates user and assistant, and
\* every assistant message holds tool_use blocks answered by the next message
\* with one tool_result per block, same ids, same order
HistoryWellFormed ==
    /\ Len(messages) >= 1
    /\ messages[1] = [role |-> "user", content |-> "task"]
    /\ \A i \in 1..Len(messages) :
          messages[i].role = (IF i % 2 = 1 THEN "user" ELSE "assistant")
    /\ \A i \in 2..Len(messages) :
          messages[i].role = "assistant" =>
              /\ messages[i].content # <<>>
              /\ \A k \in 1..Len(messages[i].content) :
                    messages[i].content[k].type = "tool_use"
              /\ i + 1 <= Len(messages)
              /\ messages[i + 1].role = "user"
              /\ Len(messages[i + 1].content) = Len(messages[i].content)
              /\ \A k \in 1..Len(messages[i].content) :
                    /\ messages[i + 1].content[k].type = "tool_result"
                    /\ messages[i + 1].content[k].tool_use_id = messages[i].content[k].id

\* a step that ends the loop leaves the history as it was
EndingAppendsNothing == (loopPc' # "call") => (messages' = messages)

-----------------------------------------------------------------------------
(* Properties of the task text of generate_code_loop.                      *)

\* C29: in the agent_arduino pipelines, for every design_file path, the task
\* text generate_code_loop hands to the generation agent is exactly state.design,
\* the text read_design read from design_file and validated as non-empty.
C29_TaskIsValidatedDesign ==
    agentTask.given =>
        /\ completed["read_design"] >= 1
        /\ agentTask.text = state["design"]
        /\ agentTask.text = strip(designFile.text)
        /\ agentTask.text # <<>>

====
